---- MODULE Spec2Model ----
(***************************************************************************)
(* AntiBotPresaleContract: the presale ledger (purchases, finalization,    *)
(* claims with vesting, refunds) and its admission gate (whitelist,        *)
(* protection window, gas ceiling, wallet cooldown, one-time signatures).  *)
(* Every action is one transaction: the EVM runs transactions one at a     *)
(* time and a reverted transaction leaves the storage untouched and emits  *)
(* nothing.  The ghost variables (sumAccepted, contributed, tokensBought,  *)
(* tokensClaimed, refunded, refundCount) accumulate what the events of the *)
(* contract report: they are the event log, summed.                        *)
(***************************************************************************)
EXTENDS Integers, FiniteSets, Sequences, TLC

\* ---------------------------------------------------------------- bounds
NumAddresses == 2      \* addresses 1..NumAddresses; address 1 is the owner
MaxTime == 3           \* block.timestamp ranges over 0..MaxTime
MaxValue == 3          \* msg.value ranges over 0..MaxValue
MaxTokenBalance == 2   \* sale tokens deposited into the contract, at most
MaxEthBalance == 1     \* ether forced into the contract, at most
MaxGasPrice == 2       \* tx.gasprice ranges over 1..MaxGasPrice
MaxProposals == 1      \* governance proposals created, at most

Addresses == 1..NumAddresses
\* cap on the counter totalParticipants: one more than there are addresses
MaxParticipants == NumAddresses + 1
OwnerAddress == 1

\* A signature is the empty byte string or stands for the triple
\* <<key that signed, buyer bound in the message, contract bound in the message>>;
\* only the first two matter here: there is one contract.
EmptySignature == <<>>
Signatures == {EmptySignature} \cup (Addresses \X Addresses)

\* ECDSA.recover over keccak256(msg.sender, address(this)): the signing key when
\* the signature was made for this sender, some unrelated address (0) otherwise.
Recover(signature, sender) ==
    IF signature[2] = sender THEN signature[1] ELSE 0

\* ---------------------------------------------------------------- state
VARIABLES
    saleInfo,          \* SaleInfo (set by the constructor, never written again)
    vestingInfo,       \* VestingInfo
    antiBotInfo,       \* AntiBotInfo (owner may update)
    isFairlaunch,
    signerAddress,
    participants,      \* mapping(address => Participant)
    whitelist,         \* mapping(address => bool)
    usedSignatures,    \* mapping(bytes => bool), as the set of keys mapped to true
    totalRaised,
    totalParticipants,
    totalTokensSold,
    saleFinalized,
    refundsEnabled,
    paused,            \* Pausable._paused
    now,               \* block.timestamp
    ethBalance,        \* address(this).balance
    tokenBalance,      \* saleInfo.token.balanceOf(address(this))
    sumAccepted,       \* ghost: sum of msg.value over TokensPurchased events
    contributed,       \* ghost: per address, sum of msg.value over its TokensPurchased events
    refunded,          \* ghost: per address, sum of amount over its RefundClaimed events
    refundCount,       \* ghost: per address, number of its RefundClaimed events
    tokensBought,      \* ghost: per address, sum of tokenAmount over its TokensPurchased events
    tokensClaimed,     \* ghost: per address, sum of amount over its TokensClaimed events
    finalizeCount,     \* ghost: number of SaleFinalized events
    entered,           \* ReentrancyGuard._status == _ENTERED
    pending,           \* the external transfer a transaction is inside of
    proposalCount,     \* TokenGovernance.proposalCount
    proposals,         \* TokenGovernance.proposals, for the ids 1..MaxProposals
    proposalExecuted   \* ghost: per proposal id, number of its ProposalExecuted events

config == <<saleInfo, vestingInfo, isFairlaunch, signerAddress>>
ledger == <<participants, totalRaised, totalParticipants, totalTokensSold,
            saleFinalized, refundsEnabled>>
gate == <<antiBotInfo, whitelist, usedSignatures, paused>>
\* the re-entrancy lock and the transfer in progress
reentrancy == <<entered, pending>>
\* the state of the TokenGovernance contract
governance == <<proposalCount, proposals, proposalExecuted>>
ghosts == <<sumAccepted, contributed, refunded, refundCount, tokensBought,
            tokensClaimed, finalizeCount>>
vars == <<saleInfo, vestingInfo, antiBotInfo, isFairlaunch, signerAddress,
          participants, whitelist, usedSignatures, totalRaised, totalParticipants,
          totalTokensSold, saleFinalized, refundsEnabled, paused, now, ethBalance,
          tokenBalance, sumAccepted, contributed, refunded, refundCount,
          tokensBought, tokensClaimed, finalizeCount, entered, pending,
          proposalCount, proposals, proposalExecuted>>

\* enum VoteType { Against, For, Abstain }
Against == 0
For == 1
Abstain == 2

\* The zero value of a Vote and of a Proposal (unwritten mapping slots); of
\* executionData only whether it is empty matters.
NoVote == [hasVoted |-> FALSE, voteType |-> Against, weight |-> 0]
NoProposal ==
    [id |-> 0, startTime |-> 0, endTime |-> 0, forVotes |-> 0, againstVotes |-> 0,
     abstainVotes |-> 0, executed |-> FALSE, canceled |-> FALSE, proposer |-> 0,
     votes |-> [a \in Addresses |-> NoVote], quorum |-> 0, executionTime |-> 0,
     executionData |-> FALSE]
ProposalIds == 1..MaxProposals

\* No external transfer is in progress.
NoTransfer == [op |-> "none"]

\* The zero value of a Participant (an unwritten mapping slot).
NoParticipant ==
    [contribution |-> 0, tokenAmount |-> 0, claimedTokens |-> 0,
     isWhitelisted |-> FALSE, lastClaimTime |-> 0, lastPurchaseTime |-> 0]

\* The constructor stores its arguments unchecked.  These are the arguments
\* tried: a fixed-price or fair-launch sale with soft cap 2, hard cap 3, at most 2
\* per wallet, open from time 1 to time 2, with or without vesting (half released
\* at the end of the sale, the rest over 2 time units).
SaleInfos ==
    [tokenPrice : {2}, softCap : {2}, hardCap : {3}, minPurchase : {1},
     maxPurchase : {2}, startTime : {1}, endTime : {2}, whitelistEnabled : {FALSE}]
\* The same sales with a purchase minimum of 0, which the constructor accepts too.
ZeroMinSaleInfos ==
    [tokenPrice : {2}, softCap : {2}, hardCap : {3}, minPurchase : {0},
     maxPurchase : {2}, startTime : {1}, endTime : {2}, whitelistEnabled : {FALSE}]
VestingInfos ==
    [enabled : BOOLEAN, initialRelease : {50}, vestingDuration : {2}]
AntiBotInfos ==
    [protectionDelay : {0}, maxGasPrice : {0}, walletCooldown : {0},
     signatureRequired : {FALSE}]

\* The state the constructor leaves: its arguments stored, all else zero.
Constructor(_saleInfo, _vestingInfo, _antiBotInfo, _signerAddress, _isFairlaunch) ==
    /\ saleInfo = _saleInfo
    /\ vestingInfo = _vestingInfo
    /\ antiBotInfo = _antiBotInfo
    /\ isFairlaunch = _isFairlaunch
    /\ signerAddress = _signerAddress
    /\ participants = [a \in Addresses |-> NoParticipant]
    /\ whitelist = [a \in Addresses |-> FALSE]
    /\ usedSignatures = {}
    /\ totalRaised = 0
    /\ totalParticipants = 0
    /\ totalTokensSold = 0
    /\ saleFinalized = FALSE
    /\ refundsEnabled = FALSE
    /\ paused = FALSE
    /\ now = 0
    /\ ethBalance = 0
    /\ tokenBalance = 0
    /\ sumAccepted = 0
    /\ contributed = [a \in Addresses |-> 0]
    /\ refunded = [a \in Addresses |-> 0]
    /\ refundCount = [a \in Addresses |-> 0]
    /\ tokensBought = [a \in Addresses |-> 0]
    /\ tokensClaimed = [a \in Addresses |-> 0]
    /\ finalizeCount = 0
    \* ReentrancyGuard's constructor: _status = _NOT_ENTERED
    /\ entered = FALSE
    /\ pending = NoTransfer
    \* the governance contract deployed for the sale's token, as constructed
    /\ proposalCount = 0
    /\ proposals = [id \in ProposalIds |-> NoProposal]
    /\ proposalExecuted = [id \in ProposalIds |-> 0]

Init ==
    \E s \in SaleInfos, v \in VestingInfos, b \in AntiBotInfos, f \in BOOLEAN :
        Constructor(s, v, b, OwnerAddress, f)

InitZeroMin ==
    \E s \in ZeroMinSaleInfos, v \in VestingInfos, b \in AntiBotInfos, f \in BOOLEAN :
        Constructor(s, v, b, OwnerAddress, f)

\* ---------------------------------------------------------------- Ownable
\* faulty variant: the caller is not compared with the owner
onlyOwner_Anyone(sender) == "ok"

\* modifier onlyOwner (OpenZeppelin Ownable): the revert reason, or "ok".
onlyOwner(sender) ==
    IF sender = OwnerAddress THEN "ok" ELSE "Ownable: caller is not the owner"

\* ---------------------------------------------------------------- buyTokens
\* faulty variant: no require(!saleFinalized)
saleActive_FinalizedOpen ==
    IF ~(now >= saleInfo.startTime) THEN "Sale not started"
    ELSE IF ~(now <= saleInfo.endTime) THEN "Sale ended"
    ELSE "ok"

\* modifier saleActive: the revert reason, or "ok".
saleActive ==
    IF ~(now >= saleInfo.startTime) THEN "Sale not started"
    ELSE IF ~(now <= saleInfo.endTime) THEN "Sale ended"
    ELSE IF saleFinalized THEN "Sale finalized"
    ELSE "ok"

\* modifier onlyWhitelisted
onlyWhitelisted(sender) ==
    IF saleInfo.whitelistEnabled /\ ~whitelist[sender] THEN "Not whitelisted" ELSE "ok"

\* faulty variant: the window protects only a sale with the whitelist enabled
ProtectionActive_WhitelistSalesOnly ==
    saleInfo.whitelistEnabled /\ now < saleInfo.startTime + antiBotInfo.protectionDelay

\* if (block.timestamp < saleInfo.startTime + antiBotInfo.protectionDelay)
ProtectionActive ==
    now < saleInfo.startTime + antiBotInfo.protectionDelay

\* faulty variant: the wallet is still cooling at lastPurchaseTime + walletCooldown
CooldownOver_Strict(sender) ==
    \/ participants[sender].lastPurchaseTime = 0
    \/ now > participants[sender].lastPurchaseTime + antiBotInfo.walletCooldown

\* the cooldown requirement of modifier antiBotProtection
CooldownOver(sender) ==
    \/ participants[sender].lastPurchaseTime = 0
    \/ now >= participants[sender].lastPurchaseTime + antiBotInfo.walletCooldown

\* faulty variant: the gas price is checked before the protection window
antiBotProtection_GasFirst(sender, gasprice) ==
    IF antiBotInfo.maxGasPrice > 0 /\ ~(gasprice <= antiBotInfo.maxGasPrice)
        THEN "Gas price too high"
    ELSE IF ProtectionActive /\ ~whitelist[sender]
        THEN "Protection active: only whitelist"
    ELSE IF antiBotInfo.walletCooldown > 0 /\ ~CooldownOver(sender)
        THEN "Cooldown active"
    ELSE "ok"

\* modifier antiBotProtection
antiBotProtection(sender, gasprice) ==
    IF ProtectionActive /\ ~whitelist[sender]
        THEN "Protection active: only whitelist"
    ELSE IF antiBotInfo.maxGasPrice > 0 /\ ~(gasprice <= antiBotInfo.maxGasPrice)
        THEN "Gas price too high"
    ELSE IF antiBotInfo.walletCooldown > 0 /\ ~CooldownOver(sender)
        THEN "Cooldown active"
    ELSE "ok"

\* faulty variant: no require(!usedSignatures[signature])
VerifySignature_Replayable(sender, signature) ==
    IF ~antiBotInfo.signatureRequired THEN "ok"
    ELSE IF ~(Len(signature) > 0) THEN "Signature required"
    ELSE IF Recover(signature, sender) # signerAddress THEN "Invalid signature"
    ELSE "ok"

\* the signature block at the head of buyTokens
VerifySignature(sender, signature) ==
    IF ~antiBotInfo.signatureRequired THEN "ok"
    ELSE IF ~(Len(signature) > 0) THEN "Signature required"
    ELSE IF signature \in usedSignatures THEN "Signature already used"
    ELSE IF Recover(signature, sender) # signerAddress THEN "Invalid signature"
    ELSE "ok"

\* faulty variant: the cap is checked against the total before this purchase
HardCapOk_Stale(value) ==
    isFairlaunch \/ totalRaised <= saleInfo.hardCap

\* require(totalRaised + msg.value <= saleInfo.hardCap) unless fair launch
HardCapOk(value) ==
    isFairlaunch \/ totalRaised + value <= saleInfo.hardCap

\* faulty variant: the ceiling is applied to the transaction, not to the wallet
WalletCapOk_PerTransaction(sender, value) ==
    value <= saleInfo.maxPurchase

\* require(participant.contribution + msg.value <= saleInfo.maxPurchase)
WalletCapOk(sender, value) ==
    participants[sender].contribution + value <= saleInfo.maxPurchase

\* the purchase limits of buyTokens, in the order of its require statements
PurchaseLimits(sender, value) ==
    IF ~(value >= saleInfo.minPurchase) THEN "Below minimum purchase"
    ELSE IF ~(value <= saleInfo.maxPurchase) THEN "Above maximum purchase"
    ELSE IF ~HardCapOk(value) THEN "Hard cap exceeded"
    ELSE IF ~WalletCapOk(sender, value) THEN "Max purchase per wallet exceeded"
    ELSE "ok"

\* faulty variant: the price is left out
PurchasedTokens_Unpriced(value) ==
    IF isFairlaunch THEN 0 ELSE value

\* uint256 tokenAmount of buyTokens
PurchasedTokens(value) ==
    IF isFairlaunch THEN 0 ELSE value * saleInfo.tokenPrice

\* if (participant.contribution == 0) totalParticipants++
CountParticipant(sender) ==
    IF participants[sender].contribution = 0 THEN totalParticipants + 1
    ELSE totalParticipants

\* The outcome of a call of buyTokens: the first failing requirement, the
\* modifiers in the order of the function header, then the body.
\* faulty variant: no whenNotPaused
buyTokensResult_NotPausable(sender, value, gasprice, signature) ==
    IF saleActive # "ok" THEN saleActive
    ELSE IF onlyWhitelisted(sender) # "ok" THEN onlyWhitelisted(sender)
    ELSE IF antiBotProtection(sender, gasprice) # "ok"
        THEN antiBotProtection(sender, gasprice)
    ELSE IF VerifySignature(sender, signature) # "ok"
        THEN VerifySignature(sender, signature)
    ELSE PurchaseLimits(sender, value)

buyTokensResult(sender, value, gasprice, signature) ==
    IF paused THEN "Pausable: paused"
    ELSE IF saleActive # "ok" THEN saleActive
    ELSE IF onlyWhitelisted(sender) # "ok" THEN onlyWhitelisted(sender)
    ELSE IF antiBotProtection(sender, gasprice) # "ok"
        THEN antiBotProtection(sender, gasprice)
    ELSE IF VerifySignature(sender, signature) # "ok"
        THEN VerifySignature(sender, signature)
    ELSE PurchaseLimits(sender, value)

\* faulty variant: the write of usedSignatures survives the revert of a later
\* require
SignatureCommitted_NoRevert(sender, value, gasprice, signature) ==
    /\ antiBotInfo.signatureRequired
    /\ buyTokensResult(sender, value, gasprice, signature) \in
           {"ok", "Below minimum purchase", "Above maximum purchase",
            "Hard cap exceeded", "Max purchase per wallet exceeded"}

\* Whether the transaction commits usedSignatures[signature] = true: the write is
\* made inside if (antiBotInfo.signatureRequired) and is undone, like every
\* other write, when a later require reverts the transaction.
SignatureCommitted(sender, value, gasprice, signature) ==
    /\ antiBotInfo.signatureRequired
    /\ buyTokensResult(sender, value, gasprice, signature) = "ok"

buyTokens(sender, value, gasprice, signature) ==
    LET result == buyTokensResult(sender, value, gasprice, signature)
        tokenAmount == PurchasedTokens(value)
        p == participants[sender]
    IN  /\ totalParticipants < MaxParticipants
        /\ usedSignatures' = IF SignatureCommitted(sender, value, gasprice, signature)
                             THEN usedSignatures \cup {signature}
                             ELSE usedSignatures
        /\ IF result = "ok"
           THEN /\ totalParticipants' = CountParticipant(sender)
                /\ participants' = [participants EXCEPT ![sender] =
                       [p EXCEPT !.contribution = p.contribution + value,
                                 !.tokenAmount = p.tokenAmount + tokenAmount,
                                 !.lastPurchaseTime = now]]
                /\ totalRaised' = totalRaised + value
                /\ totalTokensSold' = totalTokensSold + tokenAmount
                \* msg.value comes in and is sent on to saleReceiver
                /\ ethBalance' = (ethBalance + value) - value
                \* emit TokensPurchased(msg.sender, msg.value, tokenAmount)
                /\ sumAccepted' = sumAccepted + value
                /\ contributed' = [contributed EXCEPT ![sender] = @ + value]
                /\ tokensBought' = [tokensBought EXCEPT ![sender] = @ + tokenAmount]
           ELSE UNCHANGED <<totalParticipants, participants, totalRaised,
                            totalTokensSold, ethBalance, sumAccepted, contributed,
                            tokensBought>>
        /\ UNCHANGED <<config, reentrancy, governance, antiBotInfo, whitelist, paused, saleFinalized,
                       refundsEnabled, now, tokenBalance, refunded, refundCount,
                       tokensClaimed, finalizeCount>>

\* ---------------------------------------------------------------- claims
\* An arithmetic revert (underflow, division by zero) of a view function.
Panic == -1

\* The token amount a participant's claim is computed from.
\* faulty variant: the fair-launch basis is read from the stored total alone
TokenBasis_Stored(a) ==
    IF isFairlaunch /\ totalRaised > 0
    THEN (participants[a].contribution * totalTokensSold) \div totalRaised
    ELSE participants[a].tokenAmount

TokenBasis(a) ==
    IF isFairlaunch /\ totalRaised > 0
    THEN (participants[a].contribution * (tokenBalance + totalTokensSold)) \div totalRaised
    ELSE participants[a].tokenAmount

\* x - y in uint256: reverts when y > x
Sub(x, y) == IF x = Panic \/ y = Panic \/ y > x THEN Panic ELSE x - y

\* faulty variant: after endTime the initial release is left out
VestedRelease_InitialDropped(tokenAmount, t) ==
    LET initialAmount == (tokenAmount * vestingInfo.initialRelease) \div 100
        vestedAmount == Sub(tokenAmount, initialAmount)
    IN  IF vestedAmount = Panic THEN Panic
        ELSE IF t <= saleInfo.endTime THEN initialAmount
        ELSE IF vestingInfo.vestingDuration = 0 THEN Panic
        ELSE LET timeSinceEnd == t - saleInfo.endTime
                 vestedTokens == (vestedAmount * timeSinceEnd) \div vestingInfo.vestingDuration
             IN  IF vestedTokens > vestedAmount THEN vestedAmount ELSE vestedTokens

\* faulty variant: vestedTokens is not capped at vestedAmount
VestedRelease_Uncapped(tokenAmount, t) ==
    LET initialAmount == (tokenAmount * vestingInfo.initialRelease) \div 100
        vestedAmount == Sub(tokenAmount, initialAmount)
    IN  IF vestedAmount = Panic THEN Panic
        ELSE IF t <= saleInfo.endTime THEN initialAmount
        ELSE IF vestingInfo.vestingDuration = 0 THEN Panic
        ELSE LET timeSinceEnd == t - saleInfo.endTime
             IN  initialAmount
                   + (vestedAmount * timeSinceEnd) \div vestingInfo.vestingDuration

\* faulty variant: everything is released as soon as endTime has passed
VestedRelease_Cliff(tokenAmount, t) ==
    LET initialAmount == (tokenAmount * vestingInfo.initialRelease) \div 100
        vestedAmount == Sub(tokenAmount, initialAmount)
    IN  IF vestedAmount = Panic THEN Panic
        ELSE IF t <= saleInfo.endTime THEN initialAmount
        ELSE IF vestingInfo.vestingDuration = 0 THEN Panic
        ELSE initialAmount + vestedAmount

\* the vesting branch of getClaimableAmount at block.timestamp t
VestedRelease(tokenAmount, t) ==
    LET initialAmount == (tokenAmount * vestingInfo.initialRelease) \div 100
        vestedAmount == Sub(tokenAmount, initialAmount)
    IN  IF vestedAmount = Panic THEN Panic
        ELSE IF t <= saleInfo.endTime THEN initialAmount
        ELSE IF vestingInfo.vestingDuration = 0 THEN Panic
        ELSE LET timeSinceEnd == t - saleInfo.endTime
                 vestedTokens == (vestedAmount * timeSinceEnd) \div vestingInfo.vestingDuration
             IN  initialAmount + (IF vestedTokens > vestedAmount THEN vestedAmount
                                  ELSE vestedTokens)

\* faulty variant: what was claimed is not subtracted
getClaimableAmountAt_ClaimedIgnored(a, t) ==
    LET p == participants[a] IN
    IF p.contribution = 0 THEN 0
    ELSE IF totalRaised < saleInfo.softCap THEN 0
    ELSE IF ~saleFinalized THEN 0
    ELSE IF ~vestingInfo.enabled THEN TokenBasis(a)
    ELSE VestedRelease(TokenBasis(a), t)

\* getClaimableAmount(participant) evaluated at block.timestamp t
getClaimableAmountAt(a, t) ==
    LET p == participants[a] IN
    IF p.contribution = 0 THEN 0
    ELSE IF totalRaised < saleInfo.softCap THEN 0
    ELSE IF ~saleFinalized THEN 0
    ELSE IF ~vestingInfo.enabled THEN Sub(TokenBasis(a), p.claimedTokens)
    ELSE Sub(VestedRelease(TokenBasis(a), t), p.claimedTokens)

getClaimableAmount(a) == getClaimableAmountAt(a, now)

\* modifier saleEnded
saleEnded ==
    IF now > saleInfo.endTime \/ saleFinalized THEN "ok" ELSE "Sale still active"

claimTokensResult(sender) ==
    IF saleEnded # "ok" THEN saleEnded
    ELSE IF ~(totalRaised >= saleInfo.softCap) THEN "Soft cap not reached"
    ELSE IF ~saleFinalized THEN "Sale not finalized yet"
    ELSE IF ~(participants[sender].contribution > 0) THEN "No contribution"
    ELSE IF getClaimableAmount(sender) = Panic THEN "Panic"
    ELSE IF ~(getClaimableAmount(sender) > 0) THEN "No tokens available for claim"
    ELSE IF getClaimableAmount(sender) > tokenBalance
        THEN "ERC20: transfer amount exceeds balance"
    ELSE "ok"

\* faulty variant: lastClaimTime is not written
ClaimedParticipant_TimeNotStamped(p, claimableAmount) ==
    [p EXCEPT !.claimedTokens = p.claimedTokens + claimableAmount]

\* the participant record claimTokens leaves behind
ClaimedParticipant(p, claimableAmount) ==
    [p EXCEPT !.claimedTokens = p.claimedTokens + claimableAmount,
              !.lastClaimTime = now]

claimTokens(sender) ==
    LET result == claimTokensResult(sender)
        claimableAmount == getClaimableAmount(sender)
        p == participants[sender]
    IN  /\ IF result = "ok"
           THEN /\ participants' = [participants EXCEPT ![sender] =
                                       ClaimedParticipant(p, claimableAmount)]
                /\ tokenBalance' = tokenBalance - claimableAmount
                \* emit TokensClaimed(msg.sender, claimableAmount)
                /\ tokensClaimed' = [tokensClaimed EXCEPT ![sender] = @ + claimableAmount]
           ELSE UNCHANGED <<participants, tokenBalance, tokensClaimed>>
        /\ UNCHANGED <<config, reentrancy, governance, gate, totalRaised, totalParticipants, totalTokensSold,
                       saleFinalized, refundsEnabled, now, ethBalance, sumAccepted,
                       contributed, refunded, refundCount, tokensBought, finalizeCount>>

\* ---------------------------------------------------------------- refunds
claimRefundResult(sender) ==
    IF saleEnded # "ok" THEN saleEnded
    ELSE IF ~(totalRaised < saleInfo.softCap) THEN "Soft cap reached, no refunds"
    ELSE IF ~refundsEnabled THEN "Refunds not enabled"
    ELSE IF ~(participants[sender].contribution > 0) THEN "No contribution to refund"
    ELSE IF participants[sender].contribution > ethBalance THEN "transfer failed"
    ELSE "ok"

\* faulty variant: the contribution is not zeroed
RefundedParticipant_ContributionKept(p) ==
    [p EXCEPT !.tokenAmount = 0]

\* the participant record claimRefund leaves behind
RefundedParticipant(p) ==
    [p EXCEPT !.contribution = 0, !.tokenAmount = 0]

\* faulty variant: a failed transfer does not undo the writes made before it
RefundCommitted_DespiteFailedTransfer(sender) ==
    claimRefundResult(sender) \in {"ok", "transfer failed"}

\* Whether the transaction commits the writes to the participant record: they
\* are made before the transfer and are undone when the transfer reverts.
RefundCommitted(sender) ==
    claimRefundResult(sender) = "ok"

claimRefund(sender) ==
    LET result == claimRefundResult(sender)
        refundAmount == participants[sender].contribution
    IN  /\ participants' = IF RefundCommitted(sender)
                           THEN [participants EXCEPT ![sender] =
                                    RefundedParticipant(participants[sender])]
                           ELSE participants
        /\ IF result = "ok"
           THEN /\ ethBalance' = ethBalance - refundAmount
                \* emit RefundClaimed(msg.sender, refundAmount)
                /\ refunded' = [refunded EXCEPT ![sender] = @ + refundAmount]
                /\ refundCount' = [refundCount EXCEPT ![sender] = @ + 1]
           ELSE UNCHANGED <<ethBalance, refunded, refundCount>>
        /\ UNCHANGED <<config, reentrancy, governance, gate, totalRaised, totalParticipants, totalTokensSold,
                       saleFinalized, refundsEnabled, now, tokenBalance, sumAccepted,
                       contributed, tokensBought, tokensClaimed, finalizeCount>>

\* ---------------------------------------------------------------- finalizeSale
\* faulty variant: no require(!saleFinalized)
finalizeSaleResult_Repeatable(sender) ==
    IF onlyOwner(sender) # "ok" THEN onlyOwner(sender) ELSE "ok"

\* the requirements of finalizeSale: onlyOwner, then require(!saleFinalized)
finalizeSaleResult(sender) ==
    IF onlyOwner(sender) # "ok" THEN onlyOwner(sender)
    ELSE IF saleFinalized THEN "Already finalized"
    ELSE "ok"

\* faulty variant: a raise of exactly the soft cap counts as missed
SoftCapMissed_Inclusive == totalRaised <= saleInfo.softCap

\* if (totalRaised < saleInfo.softCap)
SoftCapMissed == totalRaised < saleInfo.softCap

finalizeSale(sender) ==
    LET result == finalizeSaleResult(sender) IN
    /\ IF result = "ok"
       THEN /\ saleFinalized' = TRUE
            /\ IF SoftCapMissed
               THEN refundsEnabled' = TRUE /\ UNCHANGED totalTokensSold
               ELSE IF isFairlaunch
               THEN totalTokensSold' = tokenBalance /\ UNCHANGED refundsEnabled
               ELSE UNCHANGED <<refundsEnabled, totalTokensSold>>
            \* emit SaleFinalized(totalRaised, totalTokensSold)
            /\ finalizeCount' = finalizeCount + 1
       ELSE UNCHANGED <<saleFinalized, refundsEnabled, totalTokensSold, finalizeCount>>
    /\ UNCHANGED <<config, reentrancy, governance, gate, participants, totalRaised, totalParticipants, now,
                   ethBalance, tokenBalance, sumAccepted, contributed, refunded,
                   refundCount, tokensBought, tokensClaimed>>

\* ---------------------------------------------------------------- emergencyWithdraw
emergencyWithdrawResult(sender, amount) ==
    IF onlyOwner(sender) # "ok" THEN onlyOwner(sender)
    ELSE IF amount > tokenBalance THEN "ERC20: transfer amount exceeds balance"
    ELSE "ok"

\* emergencyWithdraw(saleInfo.token, amount)
emergencyWithdraw(sender, amount) ==
    LET result == emergencyWithdrawResult(sender, amount) IN
    /\ tokenBalance' = IF result = "ok" THEN tokenBalance - amount ELSE tokenBalance
    /\ UNCHANGED <<config, reentrancy, governance, gate, ledger, now, ethBalance, ghosts>>

\* ---------------------------------------------------------------- owner's settings
\* The record updateWhitelist leaves for one listed address.
\* faulty variant: the flag follows the whitelist entry
WhitelistedParticipant_Mirrored(p, status) ==
    [p EXCEPT !.isWhitelisted = status]

WhitelistedParticipant(p, status) ==
    IF status /\ p.contribution > 0 THEN [p EXCEPT !.isWhitelisted = TRUE] ELSE p

\* updateWhitelist(addresses, status): the array is given as the set of its
\* elements (every element is written the same status, so neither order nor
\* repetition matters).
updateWhitelist(sender, addresses, status) ==
    /\ IF onlyOwner(sender) = "ok"
       THEN /\ whitelist' = [a \in Addresses |->
                                IF a \in addresses THEN status ELSE whitelist[a]]
            /\ participants' = [a \in Addresses |->
                                IF a \in addresses
                                THEN WhitelistedParticipant(participants[a], status)
                                ELSE participants[a]]
       ELSE UNCHANGED <<whitelist, participants>>
    /\ UNCHANGED <<config, reentrancy, governance, antiBotInfo, usedSignatures, paused, totalRaised,
                   totalParticipants, totalTokensSold, saleFinalized, refundsEnabled,
                   now, ethBalance, tokenBalance, ghosts>>

\* updateAntiBotProtection(protectionDelay, maxGasPrice, walletCooldown,
\* signatureRequired), the four arguments as one record
updateAntiBotProtection(sender, _antiBotInfo) ==
    /\ antiBotInfo' = IF onlyOwner(sender) = "ok" THEN _antiBotInfo ELSE antiBotInfo
    /\ UNCHANGED <<config, reentrancy, governance, whitelist, usedSignatures, paused, ledger, now,
                   ethBalance, tokenBalance, ghosts>>

updateSignerAddressResult(sender, newSigner) ==
    IF onlyOwner(sender) # "ok" THEN onlyOwner(sender)
    ELSE IF ~(newSigner # 0) THEN "Invalid signer address"
    ELSE "ok"

updateSignerAddress(sender, newSigner) ==
    /\ signerAddress' = IF updateSignerAddressResult(sender, newSigner) = "ok"
                        THEN newSigner ELSE signerAddress
    /\ UNCHANGED <<saleInfo, vestingInfo, isFairlaunch, reentrancy, governance, gate,
                   ledger, now,
                   ethBalance, tokenBalance, ghosts>>

\* ---------------------------------------------------------------- pause / unpause
\* pause(): onlyOwner, then OpenZeppelin's _pause() (whenNotPaused)
pauseResult(sender) ==
    IF onlyOwner(sender) # "ok" THEN onlyOwner(sender)
    ELSE IF paused THEN "Pausable: paused"
    ELSE "ok"

pause(sender) ==
    /\ paused' = IF pauseResult(sender) = "ok" THEN TRUE ELSE paused
    /\ UNCHANGED <<config, reentrancy, governance, antiBotInfo, whitelist, usedSignatures, ledger,
                   now, ethBalance, tokenBalance, ghosts>>

\* unpause(): onlyOwner, then OpenZeppelin's _unpause() (whenPaused)
unpauseResult(sender) ==
    IF onlyOwner(sender) # "ok" THEN onlyOwner(sender)
    ELSE IF ~paused THEN "Pausable: not paused"
    ELSE "ok"

unpause(sender) ==
    /\ paused' = IF unpauseResult(sender) = "ok" THEN FALSE ELSE paused
    /\ UNCHANGED <<config, reentrancy, governance, antiBotInfo, whitelist, usedSignatures, ledger,
                   now, ethBalance, tokenBalance, ghosts>>

\* ---------------------------------------------------------------- views
\* The cooldownEnd of getParticipantInfo.
CooldownEnd(participant) ==
    LET p == participants[participant] IN
    IF p.lastPurchaseTime > 0 /\ antiBotInfo.walletCooldown > 0
    THEN LET cooldownEnd == p.lastPurchaseTime + antiBotInfo.walletCooldown
         IN  IF cooldownEnd < now THEN 0 ELSE cooldownEnd
    ELSE 0

\* getParticipantInfo(participant) calls getClaimableAmount and reverts where
\* that reverts.
getParticipantInfoResult(participant) ==
    IF getClaimableAmount(participant) = Panic THEN "Panic" ELSE "ok"

\* getParticipantInfo(participant): the six values returned
getParticipantInfo(participant) ==
    LET p == participants[participant]
        calculatedTokenAmount ==
            IF isFairlaunch /\ saleFinalized /\ totalRaised > 0
            THEN (p.contribution * (tokenBalance + totalTokensSold)) \div totalRaised
            ELSE p.tokenAmount
    IN  [contribution |-> p.contribution,
         tokenAmount |-> calculatedTokenAmount,
         claimedTokens |-> p.claimedTokens,
         claimableTokens |-> getClaimableAmount(participant),
         isWhitelisted |-> p.isWhitelisted \/ whitelist[participant],
         cooldownEndTime |-> CooldownEnd(participant)]

\* isInCooldown(wallet): the pair returned
isInCooldown(wallet) ==
    LET p == participants[wallet]
        cooldownEnd == p.lastPurchaseTime + antiBotInfo.walletCooldown
    IN  IF antiBotInfo.walletCooldown = 0 THEN <<FALSE, 0>>
        ELSE IF p.lastPurchaseTime = 0 THEN <<FALSE, 0>>
        ELSE IF now >= cooldownEnd THEN <<FALSE, 0>>
        ELSE <<TRUE, cooldownEnd - now>>

\* ---------------------------------------------------------------- environment
\* A new block: block.timestamp grows.
Tick ==
    /\ now < MaxTime
    /\ now' = now + 1
    /\ UNCHANGED <<config, reentrancy, governance, gate, ledger, ethBalance, tokenBalance, ghosts>>

\* Somebody transfers sale tokens to the contract (token.transfer(presale, amount)),
\* as long as it then holds no more than cap.
DepositUpTo(amount, cap) ==
    /\ tokenBalance + amount <= cap
    /\ tokenBalance' = tokenBalance + amount
    /\ UNCHANGED <<config, reentrancy, governance, gate, ledger, now, ethBalance, ghosts>>

DepositTokens(amount) == DepositUpTo(amount, MaxTokenBalance)

\* A later block: block.timestamp jumps to t.
Warp(t) ==
    /\ t > now
    /\ now' = t
    /\ UNCHANGED <<config, reentrancy, governance, gate, ledger, ethBalance, tokenBalance, ghosts>>

\* Ether reaches the contract without a call of it (it has no payable function
\* but buyTokens): selfdestruct of another contract with the presale as heir.
\* Only claimRefund ever spends the contract's ether, and only once refunds are
\* enabled, so ether forced in earlier is ether forced in then.
ForceEther(amount) ==
    /\ refundsEnabled
    /\ ethBalance + amount <= MaxEthBalance
    /\ ethBalance' = ethBalance + amount
    /\ UNCHANGED <<config, reentrancy, governance, gate, ledger, now, tokenBalance, ghosts>>

Next ==
    \/ \E sender \in Addresses, value \in 0..MaxValue :
          buyTokens(sender, value, 0, EmptySignature)
    \/ \E sender \in Addresses : claimTokens(sender)
    \/ \E sender \in Addresses : claimRefund(sender)
    \/ \E sender \in Addresses : finalizeSale(sender)
    \/ \E sender \in Addresses, amount \in 1..MaxTokenBalance :
          emergencyWithdraw(sender, amount)
    \/ Tick
    \/ \E amount \in 1..MaxTokenBalance : DepositTokens(amount)
    \/ \E amount \in 1..MaxEthBalance : ForceEther(amount)

Spec == Init /\ [][Next]_vars

\* The same contract constructed with a purchase minimum of 0.
SpecZeroMin == InitZeroMin /\ [][Next]_vars

\* In the specifications below two addresses buy (and are put on or taken off the
\* whitelist): the owner and one other.
Buyers == {OwnerAddress, OwnerAddress + 1}

\* ---------------------------------------------------------------- signatures
\* A sale whose purchases need a signature; the owner switches the requirement
\* off and on and replaces the signer while buyers present any signature.
SignatureAntiBotInfos ==
    [protectionDelay : {0}, maxGasPrice : {0}, walletCooldown : {0},
     signatureRequired : BOOLEAN]
NoVesting == [enabled |-> FALSE, initialRelease |-> 50, vestingDuration |-> 2]

InitSignature ==
    \E s \in SaleInfos :
        Constructor(s, NoVesting,
                    [protectionDelay |-> 0, maxGasPrice |-> 0, walletCooldown |-> 0,
                     signatureRequired |-> TRUE],
                    OwnerAddress, FALSE)

NextSignature ==
    \/ \E sender \in Addresses, value \in 0..MaxValue, signature \in Signatures :
          buyTokens(sender, value, 0, signature)
    \/ \E sender \in Addresses, b \in SignatureAntiBotInfos :
          updateAntiBotProtection(sender, b)
    \/ \E sender \in Addresses, newSigner \in 0..NumAddresses :
          updateSignerAddress(sender, newSigner)
    \/ Tick

SpecSignature == InitSignature /\ [][NextSignature]_vars

\* ---------------------------------------------------------------- admission gate
\* A sale open from time 1 to time 3, with or without the whitelist requirement;
\* the owner edits the whitelist and switches the protection between nothing
\* and everything (window of 2 after the start, gas ceiling 1, cooldown 2,
\* signature).  Two buyers offer the minimum purchase at any gas price, without
\* a signature or with the one the signer made for them.
GateSaleInfos ==
    [tokenPrice : {2}, softCap : {2}, hardCap : {3}, minPurchase : {1},
     maxPurchase : {2}, startTime : {1}, endTime : {3}, whitelistEnabled : BOOLEAN]
GateAntiBotInfos ==
    {[protectionDelay |-> 0, maxGasPrice |-> 0, walletCooldown |-> 0,
      signatureRequired |-> FALSE],
     [protectionDelay |-> 2, maxGasPrice |-> 1, walletCooldown |-> 2,
      signatureRequired |-> TRUE]}

InitGate ==
    \E s \in GateSaleInfos, b \in GateAntiBotInfos :
        Constructor(s, NoVesting, b, OwnerAddress, FALSE)

NextGate ==
    \/ \E sender \in Buyers, gasprice \in 1..MaxGasPrice :
          \E signature \in {EmptySignature, <<signerAddress, sender>>} :
              buyTokens(sender, saleInfo.minPurchase, gasprice, signature)
    \/ \E sender \in Addresses, addresses \in SUBSET Buyers, status \in BOOLEAN :
          updateWhitelist(sender, addresses, status)
    \/ \E sender \in Addresses, b \in GateAntiBotInfos :
          updateAntiBotProtection(sender, b)
    \/ Tick

SpecGate == InitGate /\ [][NextGate]_vars

\* ---------------------------------------------------------------- outsiders
\* A sale with nobody but outsiders calling the owner's functions: every call
\* of finalizeSale, updateWhitelist and updateAntiBotProtection comes from an
\* address that is not the owner.  Buyers buy and try to claim meanwhile.
Outsiders == Addresses \ {OwnerAddress}

NextOutsider ==
    \/ \E sender \in Addresses, value \in 0..MaxValue :
          buyTokens(sender, value, 0, EmptySignature)
    \/ \E sender \in Addresses : claimTokens(sender)
    \/ \E sender \in Addresses : claimRefund(sender)
    \/ \E amount \in 1..MaxTokenBalance : DepositTokens(amount)
    \/ \E sender \in Outsiders : finalizeSale(sender)
    \/ \E sender \in Outsiders, addresses \in SUBSET Addresses, status \in BOOLEAN :
          updateWhitelist(sender, addresses, status)
    \/ \E sender \in Outsiders, b \in GateAntiBotInfos :
          updateAntiBotProtection(sender, b)
    \/ Tick

SpecOutsider == Init /\ [][NextOutsider]_vars

\* ---------------------------------------------------------------- vesting
\* A sale with vesting, time counted in days: open on day 1 only, 50 tokens per
\* unit paid, a fifth, a third or all of the tokens released at the end of the
\* sale and the rest over 10 days.  The days looked at: the end of the sale, the
\* day after, and 5, 10 and 11 days after.
VestingSaleInfos ==
    [tokenPrice : {50}, softCap : {1}, hardCap : {3}, minPurchase : {1},
     maxPurchase : {2}, startTime : {1}, endTime : {1}, whitelistEnabled : {FALSE}]
VestingSchedules ==
    [enabled : {TRUE}, initialRelease : {20, 33, 100}, vestingDuration : {10}]
VestingTimes == {1, 2, 6, 11, 12}

InitVesting ==
    \E s \in VestingSaleInfos, v \in VestingSchedules, b \in AntiBotInfos,
       f \in BOOLEAN :
        Constructor(s, v, b, OwnerAddress, f)

NextVesting ==
    \/ \E sender \in Buyers, value \in 1..MaxValue :
          buyTokens(sender, value, 0, EmptySignature)
    \/ \E sender \in Addresses : finalizeSale(sender)
    \/ \E sender \in Buyers : claimTokens(sender)
    \/ DepositUpTo(saleInfo.hardCap * saleInfo.tokenPrice,
                   saleInfo.hardCap * saleInfo.tokenPrice)
    \/ \E t \in VestingTimes : Warp(t)

SpecVesting == InitVesting /\ [][NextVesting]_vars

\* ---------------------------------------------------------------- the worked example
\* The sale of the specification's scenario: soft cap 100, hard cap 1000, 2
\* tokens per unit, no vesting, fixed price, between 50 and 110 per wallet.  Two
\* buyers pay 50 or 60 at a time; up to 440 tokens are deposited for the claims.
ExampleSaleInfos ==
    [tokenPrice : {2}, softCap : {100}, hardCap : {1000}, minPurchase : {50},
     maxPurchase : {110}, startTime : {1}, endTime : {2}, whitelistEnabled : {FALSE}]
ExampleValues == {50, 60}

InitExample ==
    \E s \in ExampleSaleInfos, b \in AntiBotInfos :
        Constructor(s, NoVesting, b, OwnerAddress, FALSE)

NextExample ==
    \/ \E sender \in Buyers, value \in ExampleValues :
          buyTokens(sender, value, 0, EmptySignature)
    \/ \E sender \in Addresses : finalizeSale(sender)
    \/ \E sender \in Buyers : claimTokens(sender)
    \/ DepositUpTo(saleInfo.maxPurchase * saleInfo.tokenPrice,
                   2 * saleInfo.maxPurchase * saleInfo.tokenPrice)
    \/ Tick

SpecExample == InitExample /\ [][NextExample]_vars

\* ---------------------------------------------------------------- two accounts
\* The sale of Spec with two accounts calling it, the owner and one other.
NextBuyers ==
    \/ \E sender \in Buyers, value \in 0..MaxValue :
          buyTokens(sender, value, 0, EmptySignature)
    \/ \E sender \in Buyers : claimTokens(sender)
    \/ \E sender \in Buyers : claimRefund(sender)
    \/ \E sender \in Buyers : finalizeSale(sender)
    \/ Tick
    \/ \E amount \in 1..MaxTokenBalance : DepositTokens(amount)
    \/ \E amount \in 1..MaxEthBalance : ForceEther(amount)

SpecBuyers == Init /\ [][NextBuyers]_vars

\* ---------------------------------------------------------------- pausing
\* The sale of Spec with two accounts calling it, the owner and one other,
\* each of whom also calls pause and unpause.
NextPause ==
    \/ \E sender \in Buyers, value \in 0..MaxValue :
          buyTokens(sender, value, 0, EmptySignature)
    \/ \E sender \in Buyers : claimTokens(sender)
    \/ \E sender \in Buyers : claimRefund(sender)
    \/ \E sender \in Buyers : finalizeSale(sender)
    \/ \E sender \in Buyers : pause(sender)
    \/ \E sender \in Buyers : unpause(sender)
    \/ Tick
    \/ \E amount \in 1..MaxTokenBalance : DepositTokens(amount)
    \/ \E amount \in 1..MaxEthBalance : ForceEther(amount)

SpecPause == Init /\ [][NextPause]_vars

\* ---------------------------------------------------------------- buyers and owner
\* A fixed-price sale of Spec without vesting, with two accounts acting, the
\* owner and one other buyer, who buy the minimum amount at a time, and the
\* owner using its settings (whitelist entries, protection profile) while the
\* sale runs.
InitFrame ==
    \E s \in SaleInfos, b \in AntiBotInfos :
        Constructor(s, NoVesting, b, OwnerAddress, FALSE)

NextFrame ==
    \/ \E sender \in Buyers :
          buyTokens(sender, saleInfo.minPurchase, 0, EmptySignature)
    \/ \E sender \in Buyers : claimTokens(sender)
    \/ \E sender \in Buyers : claimRefund(sender)
    \/ \E sender \in Buyers : finalizeSale(sender)
    \/ \E addresses \in SUBSET Buyers, status \in BOOLEAN :
          updateWhitelist(OwnerAddress, addresses, status)
    \/ \E b \in GateAntiBotInfos : updateAntiBotProtection(OwnerAddress, b)
    \/ Tick
    \/ \E amount \in 1..MaxTokenBalance : DepositTokens(amount)
    \/ \E amount \in 1..MaxEthBalance : ForceEther(amount)

SpecFrame == InitFrame /\ [][NextFrame]_vars

\* ---------------------------------------------------------------- re-entrancy
\* buyTokens, claimTokens and claimRefund hand control to another contract
\* while they run: the ether transfer runs the receiver's code, a token with
\* transfer hooks runs the recipient's.  Here each of the three is split at
\* that point: the call does everything up to and including the transfer
\* (the value has moved when the receiver's code starts) and leaves pending
\* set; TransferReturn is the receiver returning (the event is emitted and
\* the lock released), TransferRevert the receiver reverting, which undoes
\* the transaction.  While pending is set the only steps are calls into the
\* contract made by the receiver's code.

\* modifier nonReentrant (OpenZeppelin ReentrancyGuard)
nonReentrant == IF entered THEN "ReentrancyGuard: reentrant call" ELSE "ok"

\* faulty variant: the storage write is left for after the transfer
WrittenBeforeTransfer_Deferred(before, after) == before

\* What a storage slot holds when the external transfer starts, given what it
\* held when the function was entered and what the function assigns to it:
\* in all three functions the assignments precede the transfer.
WrittenBeforeTransfer(before, after) == after

\* The storage and balances a revert of the running transaction restores.
Snapshot ==
    [participants |-> participants, totalRaised |-> totalRaised,
     totalParticipants |-> totalParticipants, totalTokensSold |-> totalTokensSold,
     saleFinalized |-> saleFinalized, refundsEnabled |-> refundsEnabled,
     usedSignatures |-> usedSignatures, ethBalance |-> ethBalance,
     tokenBalance |-> tokenBalance, finalizeCount |-> finalizeCount]

buyTokensCall(sender, value, gasprice, signature) ==
    LET result == IF nonReentrant # "ok" THEN nonReentrant
                  ELSE buyTokensResult(sender, value, gasprice, signature)
        tokenAmount == PurchasedTokens(value)
        p == participants[sender]
    IN  /\ totalParticipants < MaxParticipants
        /\ IF result = "ok"
           THEN /\ entered' = TRUE
                /\ usedSignatures' = IF antiBotInfo.signatureRequired
                                     THEN usedSignatures \cup {signature}
                                     ELSE usedSignatures
                /\ totalParticipants' =
                       WrittenBeforeTransfer(totalParticipants, CountParticipant(sender))
                /\ participants' = [participants EXCEPT ![sender] =
                       WrittenBeforeTransfer(p,
                           [p EXCEPT !.contribution = p.contribution + value,
                                     !.tokenAmount = p.tokenAmount + tokenAmount,
                                     !.lastPurchaseTime = now])]
                /\ totalRaised' = WrittenBeforeTransfer(totalRaised, totalRaised + value)
                /\ totalTokensSold' =
                       WrittenBeforeTransfer(totalTokensSold, totalTokensSold + tokenAmount)
                \* payable(saleReceiver).transfer(msg.value)
                /\ ethBalance' = (ethBalance + value) - value
                /\ pending' = [op |-> "buyTokens", sender |-> sender, amount |-> value,
                               tokenAmount |-> tokenAmount, undo |-> Snapshot]
                /\ UNCHANGED <<config, governance, antiBotInfo, whitelist, paused, saleFinalized,
                               refundsEnabled, now, tokenBalance, ghosts>>
           ELSE UNCHANGED vars

claimTokensCall(sender) ==
    LET result == IF nonReentrant # "ok" THEN nonReentrant
                  ELSE claimTokensResult(sender)
        claimableAmount == getClaimableAmount(sender)
        p == participants[sender]
    IN  IF result = "ok"
        THEN /\ entered' = TRUE
             /\ participants' = [participants EXCEPT ![sender] =
                    WrittenBeforeTransfer(p, ClaimedParticipant(p, claimableAmount))]
             \* saleInfo.token.safeTransfer(msg.sender, claimableAmount)
             /\ tokenBalance' = tokenBalance - claimableAmount
             /\ pending' = [op |-> "claimTokens", sender |-> sender, amount |-> 0,
                            tokenAmount |-> claimableAmount, undo |-> Snapshot]
             /\ UNCHANGED <<config, governance, gate, totalRaised, totalParticipants,
                            totalTokensSold, saleFinalized, refundsEnabled, now,
                            ethBalance, ghosts>>
        ELSE UNCHANGED vars

claimRefundCall(sender) ==
    LET result == IF nonReentrant # "ok" THEN nonReentrant
                  ELSE claimRefundResult(sender)
        refundAmount == participants[sender].contribution
        p == participants[sender]
    IN  IF result = "ok"
        THEN /\ entered' = TRUE
             /\ participants' = [participants EXCEPT ![sender] =
                    WrittenBeforeTransfer(p, RefundedParticipant(p))]
             \* payable(msg.sender).transfer(refundAmount)
             /\ ethBalance' = ethBalance - refundAmount
             /\ pending' = [op |-> "claimRefund", sender |-> sender,
                            amount |-> refundAmount, tokenAmount |-> 0,
                            undo |-> Snapshot]
             /\ UNCHANGED <<config, governance, gate, totalRaised, totalParticipants,
                            totalTokensSold, saleFinalized, refundsEnabled, now,
                            tokenBalance, ghosts>>
        ELSE UNCHANGED vars

\* The receiver's code returns: the function emits its event and nonReentrant
\* releases the lock.
TransferReturn ==
    LET a == pending.sender IN
    /\ pending.op # "none"
    /\ entered' = FALSE
    /\ pending' = NoTransfer
    /\ sumAccepted' = IF pending.op = "buyTokens"
                      THEN sumAccepted + pending.amount ELSE sumAccepted
    /\ contributed' = IF pending.op = "buyTokens"
                      THEN [contributed EXCEPT ![a] = @ + pending.amount]
                      ELSE contributed
    /\ tokensBought' = IF pending.op = "buyTokens"
                       THEN [tokensBought EXCEPT ![a] = @ + pending.tokenAmount]
                       ELSE tokensBought
    /\ tokensClaimed' = IF pending.op = "claimTokens"
                        THEN [tokensClaimed EXCEPT ![a] = @ + pending.tokenAmount]
                        ELSE tokensClaimed
    /\ refunded' = IF pending.op = "claimRefund"
                   THEN [refunded EXCEPT ![a] = @ + pending.amount] ELSE refunded
    /\ refundCount' = IF pending.op = "claimRefund"
                      THEN [refundCount EXCEPT ![a] = @ + 1] ELSE refundCount
    /\ UNCHANGED <<config, governance, gate, ledger, now, ethBalance, tokenBalance,
                   finalizeCount>>

\* The receiver's code reverts (or runs out of gas): the transfer reverts and
\* with it the whole transaction, calls made from inside it included.
TransferRevert ==
    LET u == pending.undo IN
    /\ pending.op # "none"
    /\ entered' = FALSE
    /\ pending' = NoTransfer
    /\ participants' = u.participants
    /\ totalRaised' = u.totalRaised
    /\ totalParticipants' = u.totalParticipants
    /\ totalTokensSold' = u.totalTokensSold
    /\ saleFinalized' = u.saleFinalized
    /\ refundsEnabled' = u.refundsEnabled
    /\ usedSignatures' = u.usedSignatures
    /\ ethBalance' = u.ethBalance
    /\ tokenBalance' = u.tokenBalance
    /\ finalizeCount' = u.finalizeCount
    /\ UNCHANGED <<config, governance, antiBotInfo, whitelist, paused, now, sumAccepted,
                   contributed, refunded, refundCount, tokensBought, tokensClaimed>>

\* No transaction is running: the next one starts.
TopLevel == pending.op = "none"

\* The three guarded functions are called by a buyer, at top level or from the
\* code a transfer runs; finalizeSale, which carries no nonReentrant, likewise
\* by the owner; time passes and balances are topped up between transactions.
NextReentrancy ==
    \/ \E sender \in Buyers, value \in 1..MaxValue :
          buyTokensCall(sender, value, 0, EmptySignature)
    \/ \E sender \in Buyers : claimTokensCall(sender)
    \/ \E sender \in Buyers : claimRefundCall(sender)
    \/ TransferReturn
    \/ TransferRevert
    \/ finalizeSale(OwnerAddress)
    \/ TopLevel /\ Tick
    \/ TopLevel /\ \E amount \in 1..MaxTokenBalance : DepositTokens(amount)
    \/ TopLevel /\ \E amount \in 1..MaxEthBalance : ForceEther(amount)

SpecReentrancy == Init /\ [][NextReentrancy]_vars

\* ---------------------------------------------------------------- TokenGovernance
\* The governance contract of the token.  Time is counted in hours here.  Of a
\* proposal's title, description and executionData only whether they are empty
\* is kept.  The owner of the governance contract is the deployer, OwnerAddress.
OneHour == 1
OneDay == 24 * OneHour
defaultQuorum == 10
defaultVotingPeriod == 3 * OneDay
defaultTimeLockPeriod == 1 * OneDay

\* token.getPastVotes(account, timepoint): the voting power the token recorded
\* for the account.  The token is a deployment parameter; here the owner holds
\* 1 vote, the next address 2, everyone else none, at every timepoint.
getPastVotes(account, timepoint) ==
    IF account = OwnerAddress THEN 1
    ELSE IF account = OwnerAddress + 1 THEN 2
    ELSE 0

\* token.totalSupply()
totalSupply == 4

createProposalResult(sender, title, description, quorum, votingPeriod) ==
    LET q == IF quorum = 0 THEN defaultQuorum ELSE quorum
        vp == IF votingPeriod = 0 THEN defaultVotingPeriod ELSE votingPeriod
    IN  IF onlyOwner(sender) # "ok" THEN onlyOwner(sender)
        ELSE IF ~(title # "") THEN "Title cannot be empty"
        ELSE IF ~(description # "") THEN "Description cannot be empty"
        ELSE IF ~(q > 0 /\ q <= 100) THEN "Quorum must be between 1 and 100"
        ELSE IF ~(vp >= OneHour) THEN "Voting period too short"
        ELSE "ok"

\* createProposal(title, description, executionData, quorum, votingPeriod,
\* timeLockPeriod)
createProposal(sender, title, description, executionData, quorum, votingPeriod, timeLockPeriod) ==
    LET result == createProposalResult(sender, title, description, quorum, votingPeriod)
        q == IF quorum = 0 THEN defaultQuorum ELSE quorum
        vp == IF votingPeriod = 0 THEN defaultVotingPeriod ELSE votingPeriod
        tl == IF timeLockPeriod = 0 THEN defaultTimeLockPeriod ELSE timeLockPeriod
        id == proposalCount + 1
    IN  /\ proposalCount < MaxProposals
        /\ IF result = "ok"
           THEN /\ proposalCount' = id
                /\ proposals' = [proposals EXCEPT ![id] =
                       [@ EXCEPT !.id = id,
                                 !.startTime = now,
                                 !.endTime = now + vp,
                                 !.proposer = sender,
                                 !.quorum = q,
                                 !.executionTime = now + vp + tl,
                                 !.executionData = executionData]]
           ELSE UNCHANGED <<proposalCount, proposals>>
        /\ UNCHANGED <<config, reentrancy, gate, ledger, now, ethBalance, tokenBalance,
                       ghosts, proposalExecuted>>

\* faulty variant: no require(!hasVoted)
castVoteResult_Repeatable(sender, proposalId, voteType) ==
    IF ~(proposalId > 0 /\ proposalId <= proposalCount) THEN "Invalid proposal ID"
    ELSE IF ~(voteType <= Abstain) THEN "Invalid vote type"
    ELSE LET proposal == proposals[proposalId] IN
         IF ~(now >= proposal.startTime) THEN "Voting not started"
         ELSE IF ~(now <= proposal.endTime) THEN "Voting ended"
         ELSE IF proposal.canceled THEN "Proposal canceled"
         ELSE IF Sub(proposal.startTime, 1) = Panic THEN "Panic"
         ELSE IF ~(getPastVotes(sender, proposal.startTime - 1) > 0)
             THEN "No voting power"
         ELSE "ok"

castVoteResult(sender, proposalId, voteType) ==
    IF ~(proposalId > 0 /\ proposalId <= proposalCount) THEN "Invalid proposal ID"
    ELSE IF ~(voteType <= Abstain) THEN "Invalid vote type"
    ELSE LET proposal == proposals[proposalId] IN
         IF ~(now >= proposal.startTime) THEN "Voting not started"
         ELSE IF ~(now <= proposal.endTime) THEN "Voting ended"
         ELSE IF proposal.canceled THEN "Proposal canceled"
         ELSE IF proposal.votes[sender].hasVoted THEN "Already voted"
         ELSE IF Sub(proposal.startTime, 1) = Panic THEN "Panic"
         ELSE IF ~(getPastVotes(sender, proposal.startTime - 1) > 0)
             THEN "No voting power"
         ELSE "ok"

\* castVote(proposalId, voteType)
castVote(sender, proposalId, voteType) ==
    LET result == castVoteResult(sender, proposalId, voteType)
        proposal == proposals[proposalId]
        weight == getPastVotes(sender, proposal.startTime - 1)
    IN  /\ proposals' =
              IF result = "ok"
              THEN [proposals EXCEPT ![proposalId] =
                      [@ EXCEPT !.votes[sender] = [hasVoted |-> TRUE,
                                                   voteType |-> voteType,
                                                   weight |-> weight],
                                !.forVotes = IF voteType = For THEN @ + weight ELSE @,
                                !.againstVotes =
                                    IF voteType = Against THEN @ + weight ELSE @,
                                !.abstainVotes =
                                    IF voteType \notin {For, Against}
                                    THEN @ + weight ELSE @]]
              ELSE proposals
        /\ UNCHANGED <<config, reentrancy, gate, ledger, now, ethBalance, tokenBalance,
                       ghosts, proposalCount, proposalExecuted>>

\* faulty variant: no require(!proposal.executed)
cancelProposalResult_AfterExecution(sender, proposalId) ==
    IF ~(proposalId > 0 /\ proposalId <= proposalCount) THEN "Invalid proposal ID"
    ELSE LET proposal == proposals[proposalId] IN
         IF proposal.canceled THEN "Already canceled"
         ELSE IF ~(sender = proposal.proposer \/ sender = OwnerAddress)
             THEN "Not authorized"
         ELSE "ok"

cancelProposalResult(sender, proposalId) ==
    IF ~(proposalId > 0 /\ proposalId <= proposalCount) THEN "Invalid proposal ID"
    ELSE LET proposal == proposals[proposalId] IN
         IF proposal.executed THEN "Already executed"
         ELSE IF proposal.canceled THEN "Already canceled"
         ELSE IF ~(sender = proposal.proposer \/ sender = OwnerAddress)
             THEN "Not authorized"
         ELSE "ok"

\* cancelProposal(proposalId)
cancelProposal(sender, proposalId) ==
    /\ proposals' = IF cancelProposalResult(sender, proposalId) = "ok"
                    THEN [proposals EXCEPT ![proposalId].canceled = TRUE]
                    ELSE proposals
    /\ UNCHANGED <<config, reentrancy, gate, ledger, now, ethBalance, tokenBalance,
                   ghosts, proposalCount, proposalExecuted>>

\* executeProposal(proposalId); success is what owner().call(executionData)
\* returns, if it is made
executeProposalResult(sender, proposalId, success) ==
    IF ~(proposalId > 0 /\ proposalId <= proposalCount) THEN "Invalid proposal ID"
    ELSE LET proposal == proposals[proposalId]
             totalVotes == proposal.forVotes + proposal.againstVotes
                              + proposal.abstainVotes
         IN  IF proposal.executed THEN "Already executed"
             ELSE IF proposal.canceled THEN "Proposal canceled"
             ELSE IF ~(now > proposal.endTime) THEN "Voting not ended"
             ELSE IF ~(now >= proposal.executionTime) THEN "Time lock not expired"
             ELSE IF ~(totalVotes * 100 >= totalSupply * proposal.quorum)
                 THEN "Quorum not reached"
             ELSE IF ~(proposal.forVotes > proposal.againstVotes)
                 THEN "Proposal rejected"
             ELSE IF proposal.executionData /\ ~success THEN "Execution failed"
             ELSE "ok"

executeProposal(sender, proposalId, success) ==
    LET result == executeProposalResult(sender, proposalId, success) IN
    /\ IF result = "ok"
       THEN /\ proposals' = [proposals EXCEPT ![proposalId].executed = TRUE]
            \* emit ProposalExecuted(proposalId)
            /\ proposalExecuted' = [proposalExecuted EXCEPT ![proposalId] = @ + 1]
       ELSE UNCHANGED <<proposals, proposalExecuted>>
    /\ UNCHANGED <<config, reentrancy, gate, ledger, now, ethBalance, tokenBalance,
                   ghosts, proposalCount>>

\* The proposals tried: requested quorum 0 (the default, 10 percent), 100
\* percent or the invalid 101, a voting period and a time lock of one hour,
\* with or without execution data.  Proposals are created in the first hour
\* after the clock has left 0, so that the vote, the time lock and the time
\* after it all fall within MaxTime.  The callers are the owner and one other
\* token holder.
ProposalQuorums == {0, 100, 101}

NextGovernance ==
    \/ \E sender \in Buyers, title \in {"", "t"}, executionData \in BOOLEAN,
          quorum \in ProposalQuorums :
          /\ now = 1
          /\ createProposal(sender, title, "d", executionData, quorum, OneHour, OneHour)
    \/ \E sender \in Buyers, proposalId \in ProposalIds, voteType \in 0..3 :
          castVote(sender, proposalId, voteType)
    \/ \E sender \in Buyers, proposalId \in ProposalIds :
          cancelProposal(sender, proposalId)
    \/ \E sender \in Buyers, proposalId \in ProposalIds, success \in BOOLEAN :
          executeProposal(sender, proposalId, success)
    \/ Tick

SpecGovernance == InitFrame /\ [][NextGovernance]_vars

\* ================================================================ claims
RECURSIVE SumOver(_, _)
SumOver(f, S) ==
    IF S = {} THEN 0
    ELSE LET x == CHOOSE y \in S : TRUE IN f[x] + SumOver(f, S \ {x})

Contributors == {a \in Addresses : participants[a].contribution > 0}
NoRefundYet == \A a \in Addresses : refundCount[a] = 0
\* a purchase attempt of this model: the gate is off, so gas price and signature
\* do not matter
Attempt(sender, value) == buyTokensResult(sender, value, 0, EmptySignature)

\* C1: as long as only purchases have been made (no refund yet), totalRaised is
\* the sum of the accepted amounts and totalParticipants is the number of
\* addresses whose contribution is > 0.
C1_PurchaseAccounting ==
    NoRefundYet =>
        /\ totalRaised = sumAccepted
        /\ totalParticipants = Cardinality(Contributors)

\* C2: in fixed-price mode totalRaised never exceeds hardCap, and a purchase
\* that would take it above is not accepted: it is rejected with "Hard cap
\* exceeded" whenever the sale is open and the amount is within the limits.
C2_HardCap ==
    ~isFairlaunch =>
        /\ totalRaised <= saleInfo.hardCap
        /\ \A sender \in Addresses, value \in 0..MaxValue :
            totalRaised + value > saleInfo.hardCap =>
                /\ Attempt(sender, value) # "ok"
                /\ (/\ ~paused /\ saleActive = "ok"
                    /\ value >= saleInfo.minPurchase
                    /\ value <= saleInfo.maxPurchase)
                   => Attempt(sender, value) = "Hard cap exceeded"

\* C2 witness: two buyers have filled a fixed-price sale up to the hard cap and
\* the next purchase is rejected for it.
C2_Witness ==
    /\ ~isFairlaunch
    /\ totalRaised = saleInfo.hardCap
    /\ Cardinality(Contributors) = 2
    /\ \E sender \in Addresses : Attempt(sender, 1) = "Hard cap exceeded"

\* C3: no participant's cumulative contribution exceeds maxPurchase; a purchase
\* within the per-transaction limits that would take the buyer's total above
\* maxPurchase is rejected with "Max purchase per wallet exceeded" (the hard cap
\* permitting).
C3_WalletCap ==
    /\ \A a \in Addresses : participants[a].contribution <= saleInfo.maxPurchase
    /\ \A sender \in Addresses, value \in 0..MaxValue :
        participants[sender].contribution + value > saleInfo.maxPurchase =>
            /\ Attempt(sender, value) # "ok"
            /\ (/\ ~paused /\ saleActive = "ok"
                /\ value >= saleInfo.minPurchase
                /\ value <= saleInfo.maxPurchase
                /\ (isFairlaunch \/ totalRaised + value <= saleInfo.hardCap))
               => Attempt(sender, value) = "Max purchase per wallet exceeded"

\* C3 witness: a buyer who has contributed 1 is refused a purchase of 2, an
\* amount within [minPurchase, maxPurchase], for the wallet ceiling.
C3_Witness ==
    \E a \in Addresses :
        /\ participants[a].contribution = 1
        /\ 2 >= saleInfo.minPurchase /\ 2 <= saleInfo.maxPurchase
        /\ Attempt(a, 2) = "Max purchase per wallet exceeded"

\* C4: in fixed-price mode every accepted purchase of amount v adds exactly
\* v * tokenPrice to the buyer's tokenAmount and to totalTokensSold, and the
\* TokensPurchased event reports that token amount.
C4_FixedPrice ==
    [][~isFairlaunch =>
        \A a \in Addresses :
            contributed'[a] # contributed[a] =>
                LET v == contributed'[a] - contributed[a] IN
                /\ participants'[a].contribution = participants[a].contribution + v
                /\ participants'[a].tokenAmount =
                       participants[a].tokenAmount + v * saleInfo.tokenPrice
                /\ totalTokensSold' = totalTokensSold + v * saleInfo.tokenPrice
                /\ tokensBought'[a] = tokensBought[a] + v * saleInfo.tokenPrice]_vars

\* C4 witness: a fixed-price buyer after two accepted purchases (1, then 1 more).
C4_Witness ==
    /\ ~isFairlaunch
    /\ \E a \in Addresses :
        /\ contributed[a] = 2
        /\ participants[a].lastPurchaseTime = 2
        /\ participants[a].tokenAmount = 2 * saleInfo.tokenPrice
        /\ totalTokensSold >= participants[a].tokenAmount

\* getClaimableAmount with a reverting call counted as nothing claimable
Claimable(a) ==
    IF getClaimableAmount(a) = Panic THEN 0 ELSE getClaimableAmount(a)
ClaimableOf == [a \in Addresses |-> Claimable(a)]
ContributionOf == [a \in Addresses |-> participants[a].contribution]

\* C5: in fair-launch mode, once the sale is finalized with the soft cap met, the
\* claimable amounts of all participants sum to at most totalTokensSold, the pool
\* frozen at finalization.  Stated for the sales whose pool nobody touched since
\* (the contract holds the pool less what was claimed): the claim says it of all.
C5_NoOverDistribution ==
    (/\ isFairlaunch /\ saleFinalized /\ totalRaised >= saleInfo.softCap
     /\ tokenBalance + SumOver(tokensClaimed, Addresses) = totalTokensSold) =>
        SumOver(ClaimableOf, Addresses) <= totalTokensSold

\* C6: after finalize, claimRefund by a participant with contribution > 0
\* succeeds iff totalRaised < softCap, and claim by a participant with something
\* claimable (which the contract holds) succeeds iff totalRaised >= softCap;
\* neither succeeds before finalization; no sale sees both a claim and a refund.
C6_RefundExclusivity ==
    /\ \A a \in Addresses :
        (saleFinalized /\ participants[a].contribution > 0) =>
            (claimRefundResult(a) = "ok" <=> totalRaised < saleInfo.softCap)
    /\ \A a \in Addresses :
        (saleFinalized /\ Claimable(a) > 0 /\ Claimable(a) <= tokenBalance) =>
            (claimTokensResult(a) = "ok" <=> totalRaised >= saleInfo.softCap)
    /\ ~saleFinalized =>
        \A a \in Addresses : claimRefundResult(a) # "ok" /\ claimTokensResult(a) # "ok"
    /\ ~(\E a, b \in Addresses : tokensClaimed[a] > 0 /\ refundCount[b] > 0)

\* C7: a successful claimRefund pays out exactly the caller's contribution and
\* zeroes the caller's contribution and tokenAmount; nobody is refunded twice or
\* more than they paid in, and after a refund a further claimRefund of the same
\* address is rejected with "No contribution to refund".
C7_RefundOnce ==
    /\ [](\A a \in Addresses :
            /\ refundCount[a] <= 1
            /\ refunded[a] <= contributed[a]
            /\ refundCount[a] = 1 =>
                /\ refunded[a] = contributed[a]
                /\ claimRefundResult(a) = "No contribution to refund")
    /\ [][\A a \in Addresses :
            refundCount'[a] # refundCount[a] =>
                /\ refunded'[a] = refunded[a] + participants[a].contribution
                /\ ethBalance' = ethBalance - participants[a].contribution
                /\ participants'[a].contribution = 0
                /\ participants'[a].tokenAmount = 0]_vars

\* C7 witness: a participant who paid in and has been refunded all of it.
C7_Witness ==
    \E a \in Addresses :
        /\ refundCount[a] = 1
        /\ contributed[a] > 0
        /\ refunded[a] = contributed[a]
        /\ participants[a].contribution = 0
        /\ claimRefundResult(a) = "No contribution to refund"

\* C8: whenever refunds are enabled the contract holds at least the sum of the
\* contributions not yet refunded, so no refund fails for lack of funds.
C8_RefundsFunded ==
    refundsEnabled => ethBalance >= SumOver(ContributionOf, Addresses)

\* C9: finalizeSale succeeds at most once; saleFinalized is a one-way latch; on a
\* finalized sale every finalizeSale call is rejected (the owner's with "Already
\* finalized") and what finalizeSale writes never changes again; refundsEnabled
\* is never true while saleFinalized is false and is never cleared.
C9_FinalizeOnce ==
    /\ [](/\ finalizeCount <= 1
          /\ (finalizeCount = 1 <=> saleFinalized)
          /\ refundsEnabled => saleFinalized
          /\ saleFinalized =>
                /\ finalizeSaleResult(OwnerAddress) = "Already finalized"
                /\ \A a \in Addresses : finalizeSaleResult(a) # "ok")
    /\ [][/\ saleFinalized => saleFinalized'
          /\ refundsEnabled => refundsEnabled'
          /\ saleFinalized =>
                /\ totalTokensSold' = totalTokensSold
                /\ refundsEnabled' = refundsEnabled
                /\ finalizeCount' = finalizeCount]_vars

\* C9 witness: a finalized sale with refunds enabled, one refund later.
C9_Witness ==
    /\ saleFinalized /\ refundsEnabled /\ finalizeCount = 1
    /\ finalizeSaleResult(OwnerAddress) = "Already finalized"
    /\ \E a \in Addresses : refundCount[a] = 1

\* C10: the step that finalizes the sale does this: if totalRaised < softCap,
\* refundsEnabled becomes true and totalTokensSold is unchanged; else in
\* fair-launch mode totalTokensSold becomes the sale-token balance held at that
\* moment and refundsEnabled stays false; else neither changes.
C10_FinalizeOutcome ==
    [][(~saleFinalized /\ saleFinalized') =>
        IF totalRaised < saleInfo.softCap
        THEN refundsEnabled' /\ totalTokensSold' = totalTokensSold
        ELSE IF isFairlaunch
        THEN totalTokensSold' = tokenBalance /\ ~refundsEnabled /\ ~refundsEnabled'
        ELSE /\ ~refundsEnabled /\ ~refundsEnabled'
             /\ totalTokensSold' = totalTokensSold]_vars

\* C10 witness: a fair-launch sale finalized at exactly the soft cap: the pool
\* (the 2 tokens held) became totalTokensSold and refunds stayed off.
C10_Witness ==
    /\ isFairlaunch /\ saleFinalized /\ ~refundsEnabled
    /\ totalRaised = saleInfo.softCap
    /\ totalTokensSold = 2

\* the rejections of modifier saleActive
SaleNotActive == {"Sale not started", "Sale ended", "Sale finalized"}

\* C11: every accepted purchase happens at a time within [startTime, endTime]
\* and on a sale not yet finalized (so before the finalizing step: once finalized
\* no contribution is ever added); while the sale is finalized or the time is
\* outside the window, every purchase attempt is rejected by saleActive.
C11_OnlyWhileActive ==
    /\ [](\A sender \in Addresses, value \in 0..MaxValue :
            (~paused /\ (saleFinalized \/ now < saleInfo.startTime
                                      \/ now > saleInfo.endTime)) =>
                Attempt(sender, value) \in SaleNotActive)
    /\ [][\A a \in Addresses :
            contributed'[a] # contributed[a] =>
                /\ saleInfo.startTime <= now /\ now <= saleInfo.endTime
                /\ ~saleFinalized
                /\ participants'[a].lastPurchaseTime = now]_vars

\* C11 witness: a sale finalized inside its window, after an accepted purchase;
\* a purchase within all limits is now refused because the sale is finalized.
C11_Witness ==
    /\ saleFinalized
    /\ saleInfo.startTime <= now /\ now <= saleInfo.endTime
    /\ \E a, b \in Addresses :
        /\ contributed[a] = 1
        /\ participants[b].contribution = 0
        /\ Attempt(b, 1) = "Sale finalized"

\* The admission checks as the specification words them: whether the check
\* fails for this attempt in the current state.
WhitelistFails(sender) == saleInfo.whitelistEnabled /\ ~whitelist[sender]
ProtectionFails(sender) ==
    now < saleInfo.startTime + antiBotInfo.protectionDelay /\ ~whitelist[sender]
GasFails(gasprice) ==
    antiBotInfo.maxGasPrice > 0 /\ gasprice > antiBotInfo.maxGasPrice
CooldownFails(sender) ==
    /\ antiBotInfo.walletCooldown > 0
    /\ participants[sender].lastPurchaseTime # 0
    /\ now < participants[sender].lastPurchaseTime + antiBotInfo.walletCooldown
\* the signature was made by the current signer for this buyer
SignedFor(signature, sender) ==
    /\ signature # EmptySignature
    /\ signature[1] = signerAddress
    /\ signature[2] = sender
SignatureFails(sender, signature) ==
    /\ antiBotInfo.signatureRequired
    /\ (signature \in usedSignatures \/ ~SignedFor(signature, sender))
\* the purchase attempts tried in every state
Attempts == Addresses \X (0..MaxValue) \X (0..MaxGasPrice) \X Signatures
Outcome(x) == buyTokensResult(x[1], x[2], x[3], x[4])
\* some purchase is accepted in this step
PurchaseAccepted == \E a \in Addresses : contributed'[a] # contributed[a]

\* C12: while signatureRequired is on, every accepted purchase consumes a
\* signature that was not used before, so no signature admits two purchases;
\* usedSignatures only grows, whatever the owner does to signatureRequired or
\* the signer; an attempt that reaches the signature check is rejected with
\* "Signature required" for the empty signature, "Signature already used" for a
\* used one, "Invalid signature" for one not made by the signer for the buyer.
C12_NoReplay ==
    /\ [](\A x \in Attempts :
            (/\ antiBotInfo.signatureRequired /\ ~paused /\ saleActive = "ok"
             /\ ~WhitelistFails(x[1]) /\ ~ProtectionFails(x[1])
             /\ ~GasFails(x[3]) /\ ~CooldownFails(x[1])) =>
                /\ x[4] = EmptySignature => Outcome(x) = "Signature required"
                /\ x[4] \in usedSignatures => Outcome(x) = "Signature already used"
                /\ (/\ x[4] # EmptySignature /\ x[4] \notin usedSignatures
                    /\ ~SignedFor(x[4], x[1])) => Outcome(x) = "Invalid signature")
    /\ [][/\ usedSignatures \subseteq usedSignatures'
          /\ (antiBotInfo.signatureRequired /\ PurchaseAccepted) =>
                \E signature \in Signatures \ usedSignatures :
                    /\ signature # EmptySignature
                    /\ usedSignatures' = usedSignatures \cup {signature}]_vars

\* C12 witness: the signer has been replaced after a buyer used a signature of
\* the first signer; presented again, with the requirement on, it is refused as
\* used.
C12_Witness ==
    /\ antiBotInfo.signatureRequired
    /\ signerAddress # OwnerAddress
    /\ \E a \in Addresses :
        /\ <<OwnerAddress, a>> \in usedSignatures
        /\ contributed[a] = 1
        /\ buyTokensResult(a, 1, 0, <<OwnerAddress, a>>) = "Signature already used"

\* C13: usedSignatures changes exactly in the steps that accept a purchase under
\* signatureRequired, and then by the one signature presented; a rejected
\* purchase, whatever rejects it, leaves usedSignatures as it was.
C13_AtomicConsumption ==
    [][/\ (usedSignatures' # usedSignatures) <=>
             (antiBotInfo.signatureRequired /\ PurchaseAccepted)
       /\ ~PurchaseAccepted => usedSignatures' = usedSignatures
       /\ Cardinality(usedSignatures' \ usedSignatures) <= 1]_vars

\* C13 witness: after one signed purchase, a second buyer holds an unused valid
\* signature: an attempt above the maximum is refused by the ledger check, and
\* the same signature is accepted with an amount within the limits.
C13_Witness ==
    /\ antiBotInfo.signatureRequired
    /\ \E a, b \in Addresses :
        /\ <<signerAddress, a>> \in usedSignatures
        /\ <<signerAddress, b>> \notin usedSignatures
        /\ buyTokensResult(b, 3, 0, <<signerAddress, b>>) = "Above maximum purchase"
        /\ buyTokensResult(b, 1, 0, <<signerAddress, b>>) = "ok"

\* C14: on an open, unpaused sale the reason reported for a purchase attempt is
\* that of the first failing check in the order whitelist, protection window,
\* gas price, cooldown, signature; when none of the five fails no gate reason is
\* reported.
C14_CheckOrder ==
    \A x \in Attempts :
        (~paused /\ saleActive = "ok") =>
            IF WhitelistFails(x[1]) THEN Outcome(x) = "Not whitelisted"
            ELSE IF ProtectionFails(x[1])
                THEN Outcome(x) = "Protection active: only whitelist"
            ELSE IF GasFails(x[3]) THEN Outcome(x) = "Gas price too high"
            ELSE IF CooldownFails(x[1]) THEN Outcome(x) = "Cooldown active"
            ELSE IF SignatureFails(x[1], x[4])
                THEN Outcome(x) \in {"Signature required", "Signature already used",
                                     "Invalid signature"}
            ELSE Outcome(x) = PurchaseLimits(x[1], x[2])

\* C14 witness: a buyer fails all five checks at once (taken off the whitelist
\* after a purchase, inside the window, gas above the ceiling, cooling down, no
\* signature) and is told "Not whitelisted"; a whitelisted buyer failing the
\* later three is told "Gas price too high".
C14_Witness ==
    /\ saleActive = "ok"
    /\ \E a, b \in Addresses :
        /\ WhitelistFails(a) /\ ProtectionFails(a) /\ GasFails(2)
        /\ CooldownFails(a) /\ SignatureFails(a, EmptySignature)
        /\ buyTokensResult(a, 1, 2, EmptySignature) = "Not whitelisted"
        /\ whitelist[b] /\ CooldownFails(b)
        /\ buyTokensResult(b, 1, 2, EmptySignature) = "Gas price too high"

\* C15: while now < startTime + protectionDelay no purchase of a buyer off the
\* whitelist is accepted, and on an open sale without the whitelist requirement
\* the attempt is rejected with "Protection active: only whitelist"; from
\* startTime + protectionDelay on no attempt is rejected for that reason.
C15_ProtectionWindow ==
    /\ [](\A x \in Attempts :
            /\ (~whitelist[x[1]]
                /\ now < saleInfo.startTime + antiBotInfo.protectionDelay) =>
                    /\ Outcome(x) # "ok"
                    /\ (~paused /\ saleActive = "ok" /\ ~saleInfo.whitelistEnabled)
                        => Outcome(x) = "Protection active: only whitelist"
            /\ now >= saleInfo.startTime + antiBotInfo.protectionDelay =>
                    Outcome(x) # "Protection active: only whitelist")
    /\ [][\A a \in Addresses :
            (contributed'[a] # contributed[a] /\ ~whitelist[a]) =>
                now >= saleInfo.startTime + antiBotInfo.protectionDelay]_vars

\* C15 witness: a sale without the whitelist requirement and a window of 2: at
\* startTime + 2 a buyer off the whitelist has just bought, and a whitelisted
\* buyer bought inside the window.
C15_Witness ==
    /\ ~saleInfo.whitelistEnabled
    /\ antiBotInfo.protectionDelay = 2
    /\ now = saleInfo.startTime + antiBotInfo.protectionDelay
    /\ \E a, b \in Addresses :
        /\ ~whitelist[a] /\ ~participants[a].isWhitelisted
        /\ contributed[a] = 1 /\ participants[a].lastPurchaseTime = now
        /\ whitelist[b] /\ contributed[b] = 1
        /\ participants[b].lastPurchaseTime < now

\* C16: an attempt that passes the checks before the cooldown is rejected with
\* "Cooldown active" iff walletCooldown > 0, the wallet has bought before and
\* now < lastPurchaseTime + walletCooldown; so a wallet that never bought, or any
\* wallet under walletCooldown = 0, is never rejected for it, and every accepted
\* purchase of a wallet that bought before comes walletCooldown or more after
\* its previous one.
C16_WalletCooldown ==
    /\ [](\A x \in Attempts :
            /\ (/\ ~paused /\ saleActive = "ok" /\ ~WhitelistFails(x[1])
                /\ ~ProtectionFails(x[1]) /\ ~GasFails(x[3])) =>
                    (Outcome(x) = "Cooldown active" <=> CooldownFails(x[1]))
            /\ (contributed[x[1]] = 0 \/ antiBotInfo.walletCooldown = 0) =>
                    Outcome(x) # "Cooldown active")
    /\ [][\A a \in Addresses :
            (contributed'[a] # contributed[a] /\ contributed[a] > 0) =>
                /\ participants[a].lastPurchaseTime > 0
                /\ now >= participants[a].lastPurchaseTime
                              + antiBotInfo.walletCooldown]_vars

\* C16 witness: under a cooldown of 2 a wallet that bought at time 1 is admitted
\* again at time 3, the first moment allowed.
C16_Witness ==
    /\ antiBotInfo.walletCooldown = 2
    /\ \E a \in Addresses :
        /\ participants[a].lastPurchaseTime = 1
        /\ contributed[a] = 1
        /\ now = participants[a].lastPurchaseTime + antiBotInfo.walletCooldown
        /\ \E signature \in Signatures : buyTokensResult(a, 1, 1, signature) = "ok"

\* the times at which getClaimableAmount is evaluated: from 0 to past the end of
\* the vesting
ClaimTimes == 0..(saleInfo.endTime + vestingInfo.vestingDuration + 2)
\* a participant of a finalized sale that met its soft cap
Entitled(a) ==
    /\ saleFinalized /\ totalRaised >= saleInfo.softCap
    /\ participants[a].contribution > 0

Min(x, y) == IF x <= y THEN x ELSE y
\* what is released of basis at time t, by the formula of the specification
Released(basis, t) ==
    LET initialAmount == (basis * vestingInfo.initialRelease) \div 100
        vestedAmount == basis - initialAmount
    IN  IF t <= saleInfo.endTime THEN initialAmount
        ELSE initialAmount
               + Min(vestedAmount,
                     (vestedAmount * (t - saleInfo.endTime)) \div vestingInfo.vestingDuration)

\* C18: with vesting enabled, for an entitled participant getClaimableAmount at
\* time t is Released(basis, t) - claimedTokens (the call reverts where that
\* would be negative); with initialRelease 20, duration 10 days, basis 100 and
\* nothing claimed it is 20 at endTime, 60 five days later, 100 ten days later
\* and after.
C18_VestingFormula ==
    \A a \in Addresses :
        (Entitled(a) /\ vestingInfo.enabled) =>
            /\ \A t \in ClaimTimes :
                LET due == Released(TokenBasis(a), t) - participants[a].claimedTokens
                IN  getClaimableAmountAt(a, t) = IF due < 0 THEN Panic ELSE due
            /\ (/\ vestingInfo.initialRelease = 20 /\ vestingInfo.vestingDuration = 10
                /\ TokenBasis(a) = 100 /\ participants[a].claimedTokens = 0) =>
                    /\ getClaimableAmountAt(a, saleInfo.endTime) = 20
                    /\ getClaimableAmountAt(a, saleInfo.endTime + 5) = 60
                    /\ getClaimableAmountAt(a, saleInfo.endTime + 10) = 100
                    /\ getClaimableAmountAt(a, saleInfo.endTime + 11) = 100

\* C18 witness: the example of the specification, five days after the end of
\* the sale: 60 of the buyer's 100 tokens are claimable.
C18_Witness ==
    /\ ~isFairlaunch /\ vestingInfo.enabled
    /\ vestingInfo.initialRelease = 20 /\ vestingInfo.vestingDuration = 10
    /\ now = saleInfo.endTime + 5
    /\ \E a \in Addresses :
        /\ Entitled(a)
        /\ participants[a].tokenAmount = 100
        /\ participants[a].claimedTokens = 0
        /\ getClaimableAmount(a) = 60

\* claimed plus claimable, for a participant whose getClaimableAmount is defined
Vested(a) == participants[a].claimedTokens + getClaimableAmount(a)
InitialAmount(a) == (TokenBasis(a) * vestingInfo.initialRelease) \div 100

\* C19: with vesting enabled, for an entitled participant: at endTime claimed
\* plus claimable is the initial release; before endTime + vestingDuration it
\* is less than the basis; from endTime + vestingDuration on it is the basis.
C19_FullOnlyAfterVesting ==
    \A a \in Addresses :
        (Entitled(a) /\ vestingInfo.enabled /\ getClaimableAmount(a) # Panic) =>
            /\ now = saleInfo.endTime => Vested(a) = InitialAmount(a)
            /\ now < saleInfo.endTime + vestingInfo.vestingDuration =>
                    Vested(a) < TokenBasis(a)
            /\ now >= saleInfo.endTime + vestingInfo.vestingDuration =>
                    Vested(a) = TokenBasis(a)

\* C19, amended: the same, the middle part for an initial release of less than
\* 100 percent of a basis that is not 0 (with 100 percent the whole basis is the
\* initial release; a fair-launch sale holding no tokens has basis 0).
C19_FullOnlyAfterVesting_PartialRelease ==
    \A a \in Addresses :
        (Entitled(a) /\ vestingInfo.enabled /\ getClaimableAmount(a) # Panic) =>
            /\ now = saleInfo.endTime => Vested(a) = InitialAmount(a)
            /\ (/\ vestingInfo.initialRelease < 100 /\ TokenBasis(a) > 0
                /\ now < saleInfo.endTime + vestingInfo.vestingDuration) =>
                    Vested(a) < TokenBasis(a)
            /\ now >= saleInfo.endTime + vestingInfo.vestingDuration =>
                    Vested(a) = TokenBasis(a)

\* C19 witness: a participant who claimed the initial release (a fifth) at
\* endTime and claimed again the day before the vesting is over holds less than
\* the basis that day and has the rest claimable on the last day.
C19_Witness ==
    /\ vestingInfo.enabled /\ vestingInfo.initialRelease = 20
    /\ now = saleInfo.endTime + vestingInfo.vestingDuration
    /\ \E a \in Addresses :
        /\ Entitled(a)
        /\ participants[a].lastClaimTime = saleInfo.endTime
        /\ participants[a].claimedTokens = InitialAmount(a)
        /\ participants[a].claimedTokens > 0
        /\ Vested(a) = TokenBasis(a)

\* C20: right after a successful claim (which takes everything vested), with no
\* time passed, the participant's claimable amount is 0 and a second claim is
\* rejected with "No tokens available for claim".  Stated for the sales whose
\* tokens nobody touched since finalization except by claiming: the claim says
\* it of all.
C20_NoDoubleClaim ==
    [][\A a \in Addresses :
        (/\ tokensClaimed'[a] # tokensClaimed[a]
         /\ isFairlaunch =>
                tokenBalance + SumOver(tokensClaimed, Addresses) = totalTokensSold) =>
            /\ getClaimableAmount(a)' = 0
            /\ claimTokensResult(a)' = "No tokens available for claim"]_vars

\* the rejections of claimTokens, under the names of the specification
NotFinalized == {"Sale still active", "Sale not finalized yet"}
SoftCapNotReached == {"Soft cap not reached"}
NothingToClaim == {"No contribution", "No tokens available for claim"}

\* C21: the step of a successful claim transfers to the participant exactly the
\* amount getClaimableAmount returned for them at that time, adds it to their
\* claimedTokens and sets lastClaimTime to the time of the call; a claim on a
\* sale not finalized, or below its soft cap, or with 0 claimable, is rejected
\* for (one of) the conditions that hold.
C21_ClaimEffects ==
    /\ [](\A a \in Addresses :
            /\ (~saleFinalized /\ totalRaised >= saleInfo.softCap) =>
                    claimTokensResult(a) \in NotFinalized
            /\ (saleFinalized /\ totalRaised < saleInfo.softCap) =>
                    claimTokensResult(a) \in SoftCapNotReached
            /\ (~saleFinalized /\ totalRaised < saleInfo.softCap) =>
                    claimTokensResult(a) \in NotFinalized \cup SoftCapNotReached
            /\ (/\ saleFinalized /\ totalRaised >= saleInfo.softCap
                /\ getClaimableAmount(a) = 0) =>
                    claimTokensResult(a) \in NothingToClaim)
    /\ [][\A a \in Addresses :
            tokensClaimed'[a] # tokensClaimed[a] =>
                /\ getClaimableAmount(a) > 0
                /\ tokensClaimed'[a] = tokensClaimed[a] + getClaimableAmount(a)
                /\ tokenBalance' = tokenBalance - getClaimableAmount(a)
                /\ participants'[a].claimedTokens =
                       participants[a].claimedTokens + getClaimableAmount(a)
                /\ participants'[a].lastClaimTime = now
                /\ saleFinalized /\ totalRaised >= saleInfo.softCap]_vars

\* C21 witness: a participant of a vesting sale after the second claim, made
\* later than the first: everything claimed is recorded and the time stamped.
C21_Witness ==
    \E a \in Addresses :
        /\ vestingInfo.enabled
        /\ tokensClaimed[a] > participants[a].tokenAmount \div 2
        /\ participants[a].claimedTokens = tokensClaimed[a]
        /\ participants[a].lastClaimTime = now
        /\ now > saleInfo.endTime
        /\ claimTokensResult(a) \in NothingToClaim

\* C22: getClaimableAmount never fails, for any participant in any reachable
\* state, and returns 0 whenever the sale is not finalized or totalRaised is
\* below the soft cap.  (It is a view function: it writes nothing.)
C22_PureRead ==
    \A a \in Addresses :
        /\ getClaimableAmount(a) # Panic
        /\ (~saleFinalized \/ totalRaised < saleInfo.softCap) =>
                getClaimableAmount(a) = 0

\* C23: in fixed-price mode without vesting, on a finalized sale that met its
\* soft cap, a participant's claimable amount is their tokenAmount, the sum of
\* the tokens of all their purchases, less their claimedTokens.  In the example:
\* a buyer who paid 50 may pay 60 more while the sale is open, holds 220 tokens
\* for the 110 paid, finalization at 110 raised enables no refunds, and with
\* nothing claimed the 220 are claimable.
C23_FullClaimWithoutVesting ==
    (~isFairlaunch /\ ~vestingInfo.enabled) =>
        \A a \in Addresses :
            /\ (saleFinalized /\ totalRaised >= saleInfo.softCap) =>
                /\ ~refundsEnabled
                /\ participants[a].tokenAmount = tokensBought[a]
                /\ tokensBought[a] = contributed[a] * saleInfo.tokenPrice
                /\ getClaimableAmount(a) =
                       participants[a].tokenAmount - participants[a].claimedTokens
                /\ (contributed[a] = 110 /\ participants[a].claimedTokens = 0) =>
                       getClaimableAmount(a) = 220
            /\ (contributed[a] = 50 /\ saleActive = "ok") => Attempt(a, 60) = "ok"

\* C23 witness: the example: one buyer has paid 50 and then 60, the sale is
\* finalized with 110 raised, no refunds, and 220 tokens are claimable.
C23_Witness ==
    /\ saleFinalized /\ ~refundsEnabled /\ totalRaised = 110
    /\ \E a \in Addresses :
        /\ contributed[a] = 110
        /\ participants[a].tokenAmount = 220
        /\ participants[a].claimedTokens = 0
        /\ getClaimableAmount(a) = 220

\* C24: a call of finalizeSale, updateWhitelist or updateAntiBotProtection by
\* an address that is not the owner is rejected ("Ownable: caller is not the
\* owner") and changes nothing: where only such addresses call them,
\* saleFinalized, refundsEnabled, the whitelist and the anti-bot settings never
\* change, and the ledger changes in accepted purchases only.
C24_OwnerOnly ==
    /\ [](\A sender \in Outsiders :
            /\ onlyOwner(sender) = "Ownable: caller is not the owner"
            /\ finalizeSaleResult(sender) = "Ownable: caller is not the owner")
    /\ [][/\ UNCHANGED <<saleFinalized, refundsEnabled, whitelist, antiBotInfo>>
          /\ ~PurchaseAccepted =>
                UNCHANGED <<participants, totalRaised, totalParticipants,
                            totalTokensSold, usedSignatures>>]_vars

\* C24 witness: a sale past its end with contributions, which the owner could
\* finalize and an outsider cannot.
C24_Witness ==
    /\ now = saleInfo.endTime /\ totalRaised >= saleInfo.softCap
    /\ ~saleFinalized
    /\ finalizeSaleResult(OwnerAddress) = "ok"
    /\ \E sender \in Outsiders :
        /\ contributed[sender] > 0
        /\ finalizeSaleResult(sender) = "Ownable: caller is not the owner"

\* C25: in purchase, claim and refund the storage is fully updated before the
\* external transfer, so whatever is called from inside the transfer sees the
\* updated state: while a transfer is in progress the lock is taken and
\* buyTokens, claimTokens and claimRefund reject every caller; the record of
\* the account being paid already shows the payment (a refund: contribution
\* and tokenAmount zeroed; a claim: claimedTokens raised by the amount sent
\* and lastClaimTime stamped; a purchase: contribution, tokenAmount and the
\* totals raised), so that the function body itself, read against this state,
\* has nothing more to pay; and no account is ever refunded twice for a
\* contribution or refunded more than it paid in.
C25_UpdatedBeforeTransfer ==
    /\ pending.op # "none" =>
        LET a == pending.sender
            before == pending.undo.participants[a]
            p == participants[a]
        IN  /\ entered
            /\ nonReentrant = "ReentrancyGuard: reentrant call"
            /\ pending.op = "claimRefund" =>
                /\ p.contribution = 0 /\ p.tokenAmount = 0
                /\ pending.amount = before.contribution
                /\ claimRefundResult(a) = "No contribution to refund"
            /\ pending.op = "claimTokens" =>
                /\ p.claimedTokens = before.claimedTokens + pending.tokenAmount
                /\ p.lastClaimTime = now
                /\ getClaimableAmount(a) <= 0
                /\ claimTokensResult(a) # "ok"
            /\ pending.op = "buyTokens" =>
                /\ p.contribution = before.contribution + pending.amount
                /\ p.tokenAmount = before.tokenAmount + pending.tokenAmount
                /\ p.lastPurchaseTime = now
                /\ totalRaised = pending.undo.totalRaised + pending.amount
                \* (finalizeSale, called from inside the transfer, rewrites the
                \* fair-launch total)
                /\ finalizeCount = pending.undo.finalizeCount =>
                       totalTokensSold =
                           pending.undo.totalTokensSold + pending.tokenAmount
                /\ totalParticipants >= pending.undo.totalParticipants
                /\ (before.contribution = 0 /\ pending.amount > 0) =>
                       totalParticipants = pending.undo.totalParticipants + 1
    /\ \A a \in Addresses :
        /\ refunded[a] <= contributed[a]
        /\ refunded[a] + participants[a].contribution
             + (IF pending.op = "claimRefund" /\ pending.sender = a
                THEN pending.amount ELSE 0)
             - (IF pending.op = "buyTokens" /\ pending.sender = a
                THEN pending.amount ELSE 0) = contributed[a]

\* a refund is being paid out to an account that contributed
C25_Witness ==
    /\ pending.op = "claimRefund"
    /\ pending.amount > 0
    /\ contributed[pending.sender] = pending.amount
    /\ participants[pending.sender].contribution = 0
    /\ entered

\* C26: a rejected purchase, claim, refund or finalization is all-or-nothing:
\* a step that emits no event (no purchase, claim, refund or finalization was
\* accepted) leaves totalRaised, totalParticipants, totalTokensSold,
\* saleFinalized, refundsEnabled, usedSignatures and every participant record
\* as they were; and the updates of an accepted operation appear in one step:
\* an accepted purchase raises the buyer's contribution and totalRaised by the
\* amount paid, and the buyer's tokenAmount and totalTokensSold by the tokens
\* bought, and nothing else moves the totals; an accepted finalization sets
\* saleFinalized together with whatever else it writes.
C26_AllOrNothing ==
    [][/\ ghosts' = ghosts =>
            UNCHANGED <<totalRaised, totalParticipants, totalTokensSold, saleFinalized,
                        refundsEnabled, usedSignatures, participants>>
       /\ contributed' # contributed => \A a \in Addresses :
            contributed'[a] # contributed[a] =>
                /\ participants'[a].contribution - participants[a].contribution
                      = contributed'[a] - contributed[a]
                /\ totalRaised' - totalRaised = contributed'[a] - contributed[a]
                /\ participants'[a].tokenAmount - participants[a].tokenAmount
                      = tokensBought'[a] - tokensBought[a]
                /\ totalTokensSold' - totalTokensSold
                      = tokensBought'[a] - tokensBought[a]
                /\ participants'[a].lastPurchaseTime = now
       /\ totalRaised' # totalRaised =>
            sumAccepted' - sumAccepted = totalRaised' - totalRaised
       /\ totalParticipants' # totalParticipants => contributed' # contributed
       /\ (totalTokensSold' # totalTokensSold \/ saleFinalized' # saleFinalized
           \/ refundsEnabled' # refundsEnabled) =>
            (contributed' # contributed \/ finalizeCount' = finalizeCount + 1)
       /\ finalizeCount' # finalizeCount => (~saleFinalized /\ saleFinalized')
      ]_vars

\* money has been raised and the sale finalized below the soft cap, and every
\* one of the four operations, called now by a contributor, is rejected
C26_Witness ==
    /\ totalRaised > 0
    /\ saleFinalized /\ refundsEnabled
    /\ \E a \in Addresses :
        /\ participants[a].contribution > 0
        /\ claimRefundResult(a) = "transfer failed"
        /\ claimTokensResult(a) # "ok"
        /\ finalizeSaleResult(a) # "ok"
        /\ \A value \in 0..MaxValue : buyTokensResult(a, value, 0, EmptySignature) # "ok"

\* C27: the configuration of a constructed sale is valid:
\* 0 < minPurchase <= maxPurchase, softCap <= hardCap unless fair-launch,
\* startTime < endTime and, with vesting enabled, 0 <= initialRelease <= 100
\* and vestingDuration > 0, in every reachable state.
C27_ValidatedConfig ==
    /\ 0 < saleInfo.minPurchase
    /\ saleInfo.minPurchase <= saleInfo.maxPurchase
    /\ ~isFairlaunch => saleInfo.softCap <= saleInfo.hardCap
    /\ saleInfo.startTime < saleInfo.endTime
    /\ vestingInfo.enabled =>
        /\ 0 <= vestingInfo.initialRelease
        /\ vestingInfo.initialRelease <= 100
        /\ vestingInfo.vestingDuration > 0

\* an event of account a is emitted in this step: its purchase, claim or
\* refund was accepted
OwnOperation(a) ==
    \/ contributed'[a] # contributed[a]
    \/ tokensClaimed'[a] # tokensClaimed[a]
    \/ refundCount'[a] # refundCount[a]

\* C28 as stated: a participant record changes only in a purchase, claim or
\* refund of its own address; no other operation changes any field of it.
C28_OwnRecordOnly ==
    [][\A a \in Addresses :
         participants'[a] # participants[a] => OwnOperation(a)]_vars

\* C28, amended: outside the purchases, claims and refunds of its own address
\* no field of a participant record changes but isWhitelisted, which changes
\* only from false to true, in the owner's updateWhitelist(.., true) naming an
\* address that has a contribution; purchases, claims and refunds leave the
\* flag alone; and a refund zeroes contribution and tokenAmount and keeps the
\* rest of the record.
C28_OwnRecordOnly_ExceptWhitelistFlag ==
    [][\A a \in Addresses :
         LET p == participants[a]
             q == participants'[a]
         IN  /\ ~OwnOperation(a) =>
                   /\ [q EXCEPT !.isWhitelisted = p.isWhitelisted] = p
                   /\ q.isWhitelisted # p.isWhitelisted =>
                         /\ q.isWhitelisted /\ whitelist'[a]
                         /\ p.contribution > 0
                         /\ ghosts' = ghosts
             /\ OwnOperation(a) => q.isWhitelisted = p.isWhitelisted
             /\ refundCount'[a] # refundCount[a] =>
                   q = [p EXCEPT !.contribution = 0, !.tokenAmount = 0]
             /\ p.lastPurchaseTime > 0 => q.lastPurchaseTime > 0
      ]_vars

\* both accounts have bought, the sale is finalized, and the owner has
\* whitelisted the other buyer, whose record carries the flag
C28_Witness ==
    /\ saleFinalized
    /\ participants[OwnerAddress].contribution > 0
    /\ \E a \in Outsiders :
        /\ contributed[a] > 0
        /\ participants[a].contribution > 0
        /\ participants[a].isWhitelisted
        /\ whitelist[a]

\* C29: in every reachable state, refunds included, totalParticipants is the
\* number of addresses whose contribution is not zero.
C29_ParticipantCount ==
    totalParticipants = Cardinality({a \in Addresses : participants[a].contribution # 0})

\* floor(contribution * (held token balance + totalTokensSold) / totalRaised)
FairShare(a) ==
    (participants[a].contribution * (tokenBalance + totalTokensSold)) \div totalRaised

\* C30: in a fair-launch sale purchases credit no tokens: every participant's
\* tokenAmount is 0, totalTokensSold is 0 until finalization and no purchase
\* changes either; and after a successful finalization getClaimableAmount
\* works from the basis floor(contribution * (balance + totalTokensSold) /
\* totalRaised) with the token balance the contract holds at the time of the
\* call: it is that basis (its released part, with vesting) less what was
\* claimed, or reverts where that would be negative.
C30_FairLaunchBasis ==
    /\ [](isFairlaunch =>
            /\ \A a \in Addresses :
                /\ participants[a].tokenAmount = 0
                /\ tokensBought[a] = 0
                /\ Entitled(a) =>
                    LET due == (IF vestingInfo.enabled THEN Released(FairShare(a), now)
                                ELSE FairShare(a)) - participants[a].claimedTokens
                    IN  getClaimableAmount(a) = IF due < 0 THEN Panic ELSE due
            /\ ~saleFinalized => totalTokensSold = 0)
    /\ [][(isFairlaunch /\ contributed' # contributed) =>
             /\ totalTokensSold' = totalTokensSold
             /\ \A a \in Addresses :
                  participants'[a].tokenAmount = participants[a].tokenAmount]_vars

\* a finalized fair-launch sale above the soft cap whose token balance has
\* changed since finalization: the contributor's claimable amount follows the
\* balance held now
C30_Witness ==
    /\ isFairlaunch /\ saleFinalized /\ totalRaised >= saleInfo.softCap
    /\ tokenBalance > totalTokensSold
    /\ totalTokensSold > 0
    /\ \E a \in Addresses :
        /\ contributed[a] > 0
        /\ participants[a].tokenAmount = 0
        /\ participants[a].claimedTokens = 0
        /\ getClaimableAmount(a) > 0
        /\ getClaimableAmount(a) # (participants[a].contribution * totalTokensSold)
                                      \div totalRaised

\* C31: once the sale is finalized, totalRaised, totalParticipants,
\* totalTokensSold, saleFinalized and refundsEnabled never change again, in
\* particular not in a claim or a refund: whether totalRaised < softCap, the
\* outcome a claim or refund is decided on, is the same for every participant
\* at every later time.
C31_FrozenAfterFinalize ==
    [][/\ saleFinalized =>
            /\ UNCHANGED <<totalRaised, totalParticipants, totalTokensSold,
                           saleFinalized, refundsEnabled>>
            /\ (totalRaised' < saleInfo'.softCap) = (totalRaised < saleInfo.softCap)
            /\ contributed' = contributed
       /\ (tokensClaimed' # tokensClaimed \/ refundCount' # refundCount) =>
            /\ saleFinalized
            /\ UNCHANGED <<totalRaised, totalParticipants, totalTokensSold,
                           saleFinalized, refundsEnabled>>
      ]_vars

\* after a finalization with the soft cap met one contributor has claimed and
\* the other, who has not, meets the same totals and can claim too
C31_Witness ==
    /\ saleFinalized /\ ~refundsEnabled
    /\ totalRaised = sumAccepted /\ totalRaised >= saleInfo.softCap
    /\ totalParticipants = 2
    /\ \E a, b \in Addresses :
        /\ tokensClaimed[a] > 0
        /\ tokensClaimed[b] = 0 /\ participants[b].contribution > 0
        /\ claimTokensResult(b) = "ok"

\* what is released to a participant now: the token basis without vesting, its
\* released part with vesting
ReleasedNow(a) ==
    IF vestingInfo.enabled THEN Released(TokenBasis(a), now) ELSE TokenBasis(a)

\* C32: in every reachable state, in either mode, each entitled participant's
\* claimedTokens is at most what is released to them now, and neither
\* getClaimableAmount nor claimTokens nor getParticipantInfo fails with an
\* arithmetic error.
C32_ClaimedWithinReleased ==
    \A a \in Addresses :
        /\ Entitled(a) => participants[a].claimedTokens <= ReleasedNow(a)
        /\ getClaimableAmountAt(a, now) # Panic
        /\ claimTokensResult(a) # "Panic"
        /\ getParticipantInfoResult(a) = "ok"

\* the sale tokens are those held at finalization: since then tokens left the
\* contract in claims only and none came in
PoolFrozen == tokenBalance + SumOver(tokensClaimed, Addresses) = totalTokensSold

\* floor(contribution * pool / totalRaised), the pool being the balance that
\* finalizeSale recorded in totalTokensSold
PoolShare(a) == (participants[a].contribution * totalTokensSold) \div totalRaised

\* C33: in a fair-launch sale without vesting what a participant receives from
\* claimTokens does not depend on who claimed before: whenever they claim they
\* receive floor(contribution * pool / totalRaised) of the pool frozen at
\* finalization, and until they have claimed, their claim of a share that is
\* not 0 succeeds.
C33_ClaimOrderIndependent ==
    /\ [][\A a \in Addresses :
            (/\ isFairlaunch /\ ~vestingInfo.enabled /\ PoolFrozen
             /\ tokensClaimed'[a] # tokensClaimed[a]) =>
                tokensClaimed'[a] - tokensClaimed[a] = PoolShare(a)]_vars
    /\ [](\A a \in Addresses :
            (/\ isFairlaunch /\ ~vestingInfo.enabled /\ PoolFrozen
             /\ Entitled(a) /\ tokensClaimed[a] = 0 /\ PoolShare(a) > 0) =>
                claimTokensResult(a) = "ok")

\* C34: after a finalization with the soft cap met, the sale tokens held by
\* the contract decrease only in a participant's successful claim, and then by
\* the amount claimed.
C34_TokensLeaveByClaimOnly ==
    [][(/\ saleFinalized /\ totalRaised >= saleInfo.softCap
        /\ tokenBalance' < tokenBalance) =>
            \E a \in Addresses :
                /\ tokensClaimed'[a] > tokensClaimed[a]
                /\ tokenBalance - tokenBalance'
                      = tokensClaimed'[a] - tokensClaimed[a]]_vars

\* C35: while the contract is paused every purchase attempt is rejected
\* ("Pausable: paused") and no step adds a contribution or changes a total, a
\* purchase time or the used signatures; finalizeSale, claimTokens and
\* claimRefund are not rejected for the pause (they are decided as they are
\* when not paused: none of their checks reads the flag); pause and unpause
\* are rejected for every caller but the owner.
C35_PauseBlocksPurchases ==
    /\ [](/\ paused =>
              /\ \A sender \in Addresses, value \in 0..MaxValue :
                    Attempt(sender, value) = "Pausable: paused"
              /\ \A a \in Addresses :
                    "Pausable: paused" \notin
                        {claimTokensResult(a), claimRefundResult(a),
                         finalizeSaleResult(a)}
              /\ finalizeSaleResult(OwnerAddress) = "ok" <=> ~saleFinalized
          /\ \A sender \in Outsiders :
              /\ pauseResult(sender) = "Ownable: caller is not the owner"
              /\ unpauseResult(sender) = "Ownable: caller is not the owner")
    /\ [][paused =>
            /\ contributed' = contributed /\ sumAccepted' = sumAccepted
            /\ UNCHANGED <<totalRaised, totalParticipants, usedSignatures>>
            /\ \A a \in Addresses :
                /\ participants'[a].contribution <= participants[a].contribution
                /\ participants'[a].lastPurchaseTime = participants[a].lastPurchaseTime
       ]_vars

\* the contract is paused inside the sale window of a sale finalized with the
\* soft cap met: a contributor's purchase is refused for the pause and their
\* claim would go through
C35_Witness ==
    /\ paused
    /\ saleInfo.startTime <= now /\ now <= saleInfo.endTime
    /\ saleFinalized /\ totalRaised >= saleInfo.softCap
    /\ unpauseResult(OwnerAddress) = "ok"
    /\ \E a \in Addresses :
        /\ Attempt(a, 1) = "Pausable: paused"
        /\ claimTokensResult(a) = "ok"

\* C36: the whitelisted value getParticipantInfo reports for an address is the
\* whitelist entry admission reads for it: in a sale with the whitelist
\* enabled it is true exactly if the address passes the whitelist check.
C36_ReportedWhitelistStatus ==
    \A a \in Addresses :
        /\ getParticipantInfo(a).isWhitelisted = whitelist[a]
        /\ saleInfo.whitelistEnabled =>
              (getParticipantInfo(a).isWhitelisted <=> onlyWhitelisted(a) = "ok")

\* the cooldown requirement of admission fails for the wallet now
CooldownActive(wallet) ==
    antiBotInfo.walletCooldown > 0 /\ ~CooldownOver(wallet)

\* C39: at every time, the boundary now = lastPurchaseTime + walletCooldown
\* included, isInCooldown(wallet) answers true, and getParticipantInfo(wallet)
\* gives a cooldownEndTime that is not 0, exactly if the cooldown check of
\* admission fails for the wallet.
C39_CooldownViewsAgree ==
    \A wallet \in Addresses :
        /\ isInCooldown(wallet)[1] <=> CooldownActive(wallet)
        /\ getParticipantInfo(wallet).cooldownEndTime # 0 <=> CooldownActive(wallet)

\* the recorded weights of the addresses that voted on the proposal with one
\* of the given vote types, summed
RecordedWeight(proposal, voteTypes) ==
    SumOver([a \in Addresses |->
                IF proposal.votes[a].hasVoted /\ proposal.votes[a].voteType \in voteTypes
                THEN proposal.votes[a].weight ELSE 0], Addresses)

\* C37: on every proposal each address votes at most once (a recorded vote
\* never changes again and a further castVote of that address is rejected,
\* "Already voted"), a vote is recorded only at a time within [startTime,
\* endTime] on a proposal not canceled, by an address with voting power, and
\* raises exactly the tally of its type by its weight; in every state each
\* tally is the sum of the recorded weights of the addresses that voted that
\* way, so the three tallies together are the recorded weights of all
\* addresses with hasVoted.
C37_OneVotePerAddress ==
    /\ [](\A id \in ProposalIds :
            LET proposal == proposals[id] IN
            /\ proposal.forVotes = RecordedWeight(proposal, {For})
            /\ proposal.againstVotes = RecordedWeight(proposal, {Against})
            /\ proposal.abstainVotes = RecordedWeight(proposal, {Abstain})
            /\ proposal.forVotes + proposal.againstVotes + proposal.abstainVotes
                  = RecordedWeight(proposal, {Against, For, Abstain})
            /\ \A a \in Addresses, voteType \in 0..3 :
                /\ proposal.votes[a].hasVoted =>
                      castVoteResult(a, id, voteType)
                          \in {"Already voted", "Invalid vote type", "Voting ended",
                               "Proposal canceled"}
                /\ (now < proposal.startTime \/ now > proposal.endTime
                    \/ proposal.canceled \/ id > proposalCount) =>
                      castVoteResult(a, id, voteType) # "ok")
    /\ [][\A id \in ProposalIds, a \in Addresses :
            LET before == proposals[id]
                after == proposals'[id]
                weight == after.votes[a].weight
                voteType == after.votes[a].voteType
            IN  /\ before.votes[a].hasVoted => after.votes[a] = before.votes[a]
                /\ after.votes[a] # before.votes[a] =>
                    /\ after.votes[a].hasVoted /\ weight > 0
                    /\ before.startTime <= now /\ now <= before.endTime
                    /\ ~before.canceled /\ id <= proposalCount
                    /\ after.forVotes =
                          before.forVotes + (IF voteType = For THEN weight ELSE 0)
                    /\ after.againstVotes =
                          before.againstVotes + (IF voteType = Against THEN weight ELSE 0)
                    /\ after.abstainVotes =
                          before.abstainVotes + (IF voteType = Abstain THEN weight ELSE 0)
      ]_vars

\* two addresses have voted on a proposal, one for and one against, and the
\* vote is still open: a second vote of either is refused
C37_Witness ==
    \E id \in ProposalIds :
        LET proposal == proposals[id] IN
        /\ id <= proposalCount
        /\ proposal.startTime <= now /\ now <= proposal.endTime
        /\ ~proposal.canceled
        /\ proposal.forVotes = 2 /\ proposal.againstVotes = 1
        /\ \E a, b \in Addresses :
            /\ proposal.votes[a].hasVoted /\ proposal.votes[a].voteType = For
            /\ proposal.votes[b].hasVoted /\ proposal.votes[b].voteType = Against
            /\ castVoteResult(a, id, Against) = "Already voted"
            /\ castVoteResult(b, id, Abstain) = "Already voted"

\* what executeProposal requires of a proposal besides the success of the call
Executable(proposal) ==
    /\ ~proposal.executed /\ ~proposal.canceled
    /\ now > proposal.endTime /\ now >= proposal.executionTime
    /\ (proposal.forVotes + proposal.againstVotes + proposal.abstainVotes) * 100
          >= totalSupply * proposal.quorum
    /\ proposal.forVotes > proposal.againstVotes

\* C38: a proposal is executed at most once (one ProposalExecuted event, after
\* which executeProposal is refused), and only in a state where it is not
\* canceled, now > endTime, now >= executionTime, the votes cast times 100 reach
\* totalSupply times the quorum and forVotes > againstVotes; executed and
\* canceled never go back to false and are never both true; cancelProposal is
\* accepted only from the proposer or the owner and never on an executed
\* proposal; an execution whose call fails leaves the proposal as it was, not
\* executed.
C38_ProposalLifecycle ==
    /\ [](\A id \in ProposalIds :
            LET proposal == proposals[id] IN
            /\ proposalExecuted[id] <= 1
            /\ proposal.executed <=> proposalExecuted[id] = 1
            /\ ~(proposal.executed /\ proposal.canceled)
            /\ \A sender \in Addresses :
                /\ \A success \in BOOLEAN :
                    executeProposalResult(sender, id, success) = "ok" =>
                        /\ id <= proposalCount /\ Executable(proposal)
                        /\ proposal.executionData => success
                /\ (Executable(proposal) /\ proposal.executionData /\ id <= proposalCount)
                      => executeProposalResult(sender, id, FALSE) = "Execution failed"
                /\ cancelProposalResult(sender, id) = "ok" =>
                        /\ sender \in {proposal.proposer, OwnerAddress}
                        /\ ~proposal.executed /\ ~proposal.canceled
                /\ proposal.executed =>
                        /\ cancelProposalResult(sender, id) = "Already executed"
                        /\ \A success \in BOOLEAN :
                              executeProposalResult(sender, id, success)
                                  = "Already executed")
    /\ [][\A id \in ProposalIds :
            LET before == proposals[id]
                after == proposals'[id]
            IN  /\ before.executed => after.executed
                /\ before.canceled => after.canceled
                /\ proposalExecuted'[id] >= proposalExecuted[id]
                /\ (after.executed /\ ~before.executed) =>
                    /\ Executable(before)
                    /\ proposalExecuted'[id] = proposalExecuted[id] + 1
                    /\ after = [before EXCEPT !.executed = TRUE]
                /\ (after.canceled /\ ~before.canceled) =>
                    /\ ~before.executed
                    /\ after = [before EXCEPT !.canceled = TRUE]
                /\ \A sender \in Addresses :
                    (executeProposalResult(sender, id, FALSE) = "Execution failed"
                        /\ executeProposal(sender, id, FALSE))
                    => (~after.executed /\ after = before
                        /\ proposalExecuted'[id] = proposalExecuted[id])
      ]_vars

\* a proposal with execution data has been executed: a further execution and a
\* cancellation by its proposer are refused
C38_Witness ==
    \E id \in ProposalIds :
        LET proposal == proposals[id] IN
        /\ proposal.executed /\ proposal.executionData /\ ~proposal.canceled
        /\ proposalExecuted[id] = 1
        /\ now > proposal.endTime /\ now >= proposal.executionTime
        /\ proposal.forVotes > proposal.againstVotes
        /\ executeProposalResult(OwnerAddress, id, TRUE) = "Already executed"
        /\ cancelProposalResult(proposal.proposer, id) = "Already executed"

====
